---- MODULE Spec2Model ----
(***************************************************************************)
(* Monthly wealth simulation of backend/domain.py and the tax iteration    *)
(* of backend/services.py (run_scenario_simulation).                       *)
(*                                                                         *)
(* Numbers.  Monetary amounts are integers (fixed point, one unit =        *)
(* 1/10000 of a currency unit).  Rates are drawn from values on which the  *)
(* source's float expressions are exact in integers:                       *)
(*   - an annual growth rate a has 1 + a a perfect 12th power, so that     *)
(*     (1 + a) ** (1/12) - 1 is an integer monthly rate;                   *)
(*   - an annual interest rate is a multiple of 12, so that                *)
(*     rate * (frequency / 12) is an integer.                              *)
(* Python's None is the falsy value NoValue wherever the source tests the  *)
(* field with `or` / truthiness.                                           *)
(***************************************************************************)
EXTENDS Integers, Sequences, FiniteSets, TLC

VARIABLES
    stored,                     \* the assets and transactions collections of the repository
    scenario,                   \* scenario document (repo.get_scenario)
    assets,                     \* asset documents (repo.list_assets_for_scenario)
    transactions,               \* transaction documents (repo.list_transactions_for_scenario)
    overrides,                  \* overrides argument of run_scenario_simulation
    repo_docs,                  \* the document objects the repository returned, as they are now
    balance,                    \* Account.balance, per account index
    account_attrs,              \* Account.annual_growth_rate, _current_year, _current_month
    account_initialized,        \* account_initialized[account]
    active_accounts,            \* active_accounts of the current month (account indices, in order)
    current_date,               \* current_date of the month loop
    monthly,                    \* monthly_income / monthly_expense / monthly_growth / monthly_tax
    details,                    \* income_details / expense_details / growth_details / tax_details
    account_balance_histories,  \* per account: sequence of <<date, balance>>
    total_wealth_history,       \* sequence of <<date, total>>
    cash_flow_history,          \* sequence of cash-flow records
    tax_rows,                   \* tax_rows of the tax iteration
    tax_transactions,           \* tax_transactions of the tax iteration
    same_vals,                  \* same_vals of the last convergence test
    iteration,                  \* number of the simulation pass being run (1-based)
    pc,                         \* position in the run: load, growth, standard, interest, collect,
                                \* done, error
    mi,                         \* index of the next mortgage-interest transaction of the month
    applied,                    \* history: applications of standard transactions in this pass
    earlier                     \* history: the histories the previous call of the simulation returned

vars == <<stored, scenario, assets, transactions, overrides, repo_docs, balance,
          account_attrs, account_initialized, active_accounts,
          current_date, monthly, details, account_balance_histories, total_wealth_history,
          cash_flow_history, tax_rows, tax_transactions, same_vals, iteration, pc, mi,
          applied, earlier>>

\* ---------------------------------------------------------------- bounds
Horizon == 4            \* number of months of the scenario window
MaxFrequency == 3       \* largest frequency of a regular / mortgage-interest transaction
MaxIncome == 200000     \* largest taxable income (currency units) the federal tariff is read at

\* ---------------------------------------------------------------- helpers
NoValue == 0

Or(a, b) == IF a # NoValue THEN a ELSE b

Abs(x) == IF x < 0 THEN -x ELSE x

Max(a, b) == IF a >= b THEN a ELSE b

Min(a, b) == IF a <= b THEN a ELSE b

RECURSIVE Pow(_, _)
Pow(b, e) == IF e = 0 THEN 1 ELSE b * Pow(b, e - 1)

RECURSIVE SumSeq(_)
SumSeq(s) == IF s = <<>> THEN 0 ELSE Head(s) + SumSeq(Tail(s))

Date(y, m) == [year |-> y, month |-> m]

\* y*100 + m, the key of growth / rate / inflation schedules
MonthKey(y, m) == y * 100 + m

\* (current_year - year) * 12 + (current_month - month)
MonthsBetween(y0, m0, y1, m1) == (y1 - y0) * 12 + (m1 - m0)

\* the successor of a month (december rolls over to january of the next year)
NextMonth(d) == IF d.month = 12 THEN Date(d.year + 1, 1) ELSE Date(d.year, d.month + 1)

\* current_year > year or (current_year == year and current_month >= month)
StartsBeforeOrNow(y0, m0, y, m) == y > y0 \/ (y = y0 /\ m >= m0)

\* current_year < end_year or (current_year == end_year and current_month <= end_month)
EndsAfterOrNow(y1, m1, y, m) == y < y1 \/ (y = y1 /\ m <= m1)

\* (1 + annual_rate) ** (1 / 12) - 1
MonthlyRate(annual_rate) == (CHOOSE g \in 1..3 : Pow(g, 12) = 1 + annual_rate) - 1

\* ---------------------------------------------------------------- Account
ScenarioDefaults(sc) ==
    [start_year |-> sc.start_year, start_month |-> sc.start_month,
     end_year |-> sc.end_year, end_month |-> sc.end_month]

\* Account(...) as constructed by run_scenario_simulation, dates from _coalesce_asset_dates
AccountOf(asset, defaults) ==
    [name |-> asset.name,
     asset_type |-> asset.asset_type,
     base_annual_growth_rate |-> asset.annual_growth_rate,
     growth_schedule |-> asset.growth_schedule,
     initial_balance |-> asset.initial_balance,
     start_year |-> Or(asset.start_year, defaults.start_year),
     start_month |-> Or(asset.start_month, defaults.start_month),
     end_year |-> Or(asset.end_year, defaults.end_year),
     end_month |-> Or(asset.end_month, defaults.end_month)]

AccountIds == 1..Len(assets)

Acct(i) == AccountOf(assets[i], ScenarioDefaults(scenario))

\* Account.is_active
IsActive(acc, m, y) ==
    /\ (acc.start_year # NoValue /\ acc.start_month # NoValue)
           => StartsBeforeOrNow(acc.start_year, acc.start_month, y, m)
    /\ (acc.end_year # NoValue /\ acc.end_month # NoValue)
           => EndsAfterOrNow(acc.end_year, acc.end_month, y, m)

\* _in_window of Account.apply_growth
GrowthInWindow(key, start, end) ==
    IF start = NoValue THEN TRUE
    ELSE IF key < start THEN FALSE
    ELSE IF end # NoValue /\ key > end THEN FALSE
    ELSE TRUE

\* rate_to_use of Account.apply_growth: first matching growth_schedule entry, else the base rate
RECURSIVE RateToUse(_, _, _)
RateToUse(schedule, key, base) ==
    IF schedule = <<>> THEN base
    ELSE IF GrowthInWindow(key, Head(schedule).start, Head(schedule).end)
         THEN Head(schedule).rate
         ELSE RateToUse(Tail(schedule), key, base)

\* is_active stores the month it is asked about on the account (_current_month, _current_year)
MonthContext(attrs, m, y) == [attrs EXCEPT !.current_month = m, !.current_year = y]

\* rate_to_use for the month context (m, y) left on the account: the base rate without one
CurrentRate(acc, m, y) ==
    IF m = NoValue \/ y = NoValue THEN acc.base_annual_growth_rate
    ELSE RateToUse(acc.growth_schedule, MonthKey(y, m), acc.base_annual_growth_rate)

\* set_growth_rate: the rate is stored on the account
SetGrowthRate(attrs, annual_rate) == [attrs EXCEPT !.annual_growth_rate = annual_rate]

\* faulty variant of ApplyGrowth: twice the month's growth is taken off the balance
ApplyGrowthAsLoss(acc, bal, m, y) == bal - 2 * bal * MonthlyRate(CurrentRate(acc, m, y))

\* Account.apply_growth: the balance after compounding one month at the rate of the month
\* context (m, y)
ApplyGrowth(acc, bal, m, y) == bal + bal * MonthlyRate(CurrentRate(acc, m, y))

\* ---------------------------------------------------------------- transactions
\* _coalesce_dates: start/end year/month with the scenario's defaults
CoalesceDates(tx_doc, defaults) ==
    LET start_year == Or(tx_doc.start_year, defaults.start_year)
        start_month == Or(tx_doc.start_month, defaults.start_month)
    IN [start_year |-> start_year,
        start_month |-> start_month,
        end_year |-> Or(Or(tx_doc.end_year, defaults.end_year), start_year),
        end_month |-> Or(Or(tx_doc.end_month, defaults.end_month), start_month)]

\* faulty variant of IsInternal: the flag is never carried to the instance
IsInternalNever(tx_doc) == FALSE

\* is_internal of _create_transaction_instance
IsInternal(tx_doc) == tx_doc.double_entry \/ tx_doc.counter_asset_id # NoValue

\* _create_transaction_instance (with the attributes _build_transactions sets on a taxable one)
CreateTransactionInstance(tx_doc, defaults) ==
    LET d == CoalesceDates(tx_doc, defaults)
    IN [tx_type |-> tx_doc.type,
        id |-> tx_doc.id,
        name |-> tx_doc.name,
        amount |-> tx_doc.amount,
        month |-> d.start_month,
        year |-> d.start_year,
        end_month |-> d.end_month,
        end_year |-> d.end_year,
        frequency |-> Max(1, Or(Or(tx_doc.frequency, 1), 1)),
        monthly_growth_rate |-> MonthlyRate(tx_doc.annual_growth_rate),
        internal |-> IsInternal(tx_doc),
        inflation_schedule |-> tx_doc.inflation_schedule,
        tax_effect |-> 0]

\* account_map.get(id): the account index, or NoValue when the id names no asset
AccountMapGet(id) == IF id \in AccountIds THEN id ELSE NoValue

\* _build_transactions, mortgage-interest branch
CreateInterestInstance(tx_doc, defaults, income_tax_rate) ==
    LET d == CoalesceDates(tx_doc, defaults)
    IN [tx_type |-> "mortgage_interest",
        id |-> tx_doc.id,
        name |-> tx_doc.name,
        mortgage_account |-> AccountMapGet(tx_doc.mortgage_asset_id),
        pay_from_account |-> AccountMapGet(tx_doc.asset_id),
        annual_interest_rate |-> Or(Or(tx_doc.annual_interest_rate, tx_doc.annual_growth_rate), 0),
        frequency |-> Max(1, Or(Or(tx_doc.frequency, 1), 1)),
        month |-> d.start_month,
        year |-> d.start_year,
        end_month |-> d.end_month,
        end_year |-> d.end_year,
        rate_schedule |-> tx_doc.rate_schedule,
        taxable |-> tx_doc.taxable,
        tax_rate |-> Or(income_tax_rate, 0)]

\* _build_transactions: account_transactions[account], in document order
RECURSIVE AccountTransactions(_, _, _)
AccountTransactions(docs, a, defaults) ==
    IF docs = <<>> THEN <<>>
    ELSE LET tx == Head(docs)
             rest == AccountTransactions(Tail(docs), a, defaults)
         IN IF tx.type # "mortgage_interest" /\ AccountMapGet(tx.asset_id) = a
            THEN <<CreateTransactionInstance(tx, defaults)>> \o rest
            ELSE rest

\* _build_transactions: mortgage_interest_transactions, in document order
RECURSIVE MortgageInterestTransactions(_, _, _)
MortgageInterestTransactions(docs, defaults, income_tax_rate) ==
    IF docs = <<>> THEN <<>>
    ELSE LET tx == Head(docs)
             rest == MortgageInterestTransactions(Tail(docs), defaults, income_tax_rate)
         IN IF /\ tx.type = "mortgage_interest"
               /\ AccountMapGet(tx.mortgage_asset_id) # NoValue
               /\ AccountMapGet(tx.asset_id) # NoValue
            THEN <<CreateInterestInstance(tx, defaults, income_tax_rate)>> \o rest
            ELSE rest

\* faulty variant of IsApplicable: a regular transaction ignores its frequency
IsApplicableEveryMonth(tx, m, y) ==
    IF tx.tx_type = "regular"
    THEN /\ StartsBeforeOrNow(tx.year, tx.month, y, m)
         /\ EndsAfterOrNow(tx.end_year, tx.end_month, y, m)
    ELSE tx.month = m /\ tx.year = y

\* Transaction.is_applicable / RegularTransaction.is_applicable
IsApplicable(tx, m, y) ==
    IF tx.tx_type = "regular"
    THEN /\ StartsBeforeOrNow(tx.year, tx.month, y, m)
         /\ EndsAfterOrNow(tx.end_year, tx.end_month, y, m)
         /\ MonthsBetween(tx.year, tx.month, y, m) % tx.frequency = 0
    ELSE tx.month = m /\ tx.year = y

\* RegularTransaction.get_amount_for_period
GetAmountForPeriod(tx, m, y) ==
    LET total_months == MonthsBetween(tx.year, tx.month, y, m)
        periods_elapsed == total_months \div tx.frequency
    IN tx.amount * Pow(1 + tx.monthly_growth_rate, periods_elapsed)

\* self.amount once is_applicable has returned True
AmountWhenApplicable(tx, m, y) ==
    IF tx.tx_type = "regular" THEN GetAmountForPeriod(tx, m, y) ELSE tx.amount

\* faulty variant of AdjustedAmount: an entry keeps scaling the amount after its window has ended
AdjustedAmountNoEnd(amt, schedule, key) ==
    LET hits == {k \in 1..Len(schedule) : schedule[k].start = NoValue \/ key >= schedule[k].start}
    IN IF hits = {} THEN amt
       ELSE amt * (1 + schedule[CHOOSE k \in hits : \A j \in hits : k <= j].pct)

\* Transaction.adjusted_amount: the first matching inflation_schedule entry scales the amount
RECURSIVE AdjustedAmount(_, _, _)
AdjustedAmount(amt, schedule, key) ==
    IF schedule = <<>> THEN amt
    ELSE LET entry == Head(schedule)
         IN IF \/ (entry.start # NoValue /\ key < entry.start)
               \/ (entry.end # NoValue /\ key > entry.end)
            THEN AdjustedAmount(amt, Tail(schedule), key)
            ELSE amt * (1 + entry.pct)

\* faulty variant of ScheduledRate: the rate schedule is ignored
UnscheduledRate(schedule, key, base) == base

\* effective rate of MortgageInterestTransaction._periodic_interest
RECURSIVE ScheduledRate(_, _, _)
ScheduledRate(schedule, key, base) ==
    IF schedule = <<>> THEN base
    ELSE LET entry == Head(schedule)
         IN IF \/ (entry.start # NoValue /\ key < entry.start)
               \/ (entry.end # NoValue /\ key > entry.end)
            THEN ScheduledRate(Tail(schedule), key, base)
            ELSE entry.rate

\* faulty variant of PeriodicInterest: one month of interest whatever the frequency
PeriodicInterestOneMonth(itx, bal, m, y) ==
    Abs(bal) * (ScheduledRate(itx.rate_schedule, MonthKey(y, m), itx.annual_interest_rate) \div 12)

\* MortgageInterestTransaction._periodic_interest, for the mortgage balance bal
PeriodicInterest(itx, bal, m, y) ==
    LET annual == ScheduledRate(itx.rate_schedule, MonthKey(y, m), itx.annual_interest_rate)
        periodic_rate == (annual * itx.frequency) \div 12
    IN Abs(bal) * periodic_rate

\* MortgageInterestTransaction.is_applicable
InterestIsApplicable(itx, m, y) ==
    /\ StartsBeforeOrNow(itx.year, itx.month, y, m)
    /\ EndsAfterOrNow(itx.end_year, itx.end_month, y, m)
    /\ MonthsBetween(itx.year, itx.month, y, m) % itx.frequency = 0

\* ---------------------------------------------------------------- the month loop
\* faulty variant of GetBalance: the balance of the last snapshot (the month's opening balance)
OpeningBalance(a) ==
    IF account_balance_histories[a] = <<>> THEN assets[a].initial_balance
    ELSE account_balance_histories[a][Len(account_balance_histories[a])].value

\* Account.get_balance
GetBalance(a) == balance[a]

\* tax_account of run_scenario_simulation: account_map.get(scenario["tax_account_id"])
TaxAccount == AccountMapGet(scenario.tax_account_id)

InSeq(x, s) == \E k \in 1..Len(s) : s[k] = x

\* pick_tax_account: the configured tax account if active, else the first active account
PickTaxAccount(active) ==
    IF TaxAccount # NoValue /\ InSeq(TaxAccount, active) THEN TaxAccount
    ELSE IF active # <<>> THEN active[1]
    ELSE NoValue

\* the accumulators a month starts with
MonthlyZero == [income |-> 0, expense |-> 0, growth |-> 0, tax |-> 0]

DetailsZero == [income_details |-> <<>>, expense_details |-> <<>>,
                growth_details |-> <<>>, tax_details |-> <<>>]

\* faulty variant of GrowthLoop: the first active month does not restore initial_balance
RECURSIVE GrowthLoopNoRestore(_, _, _)
GrowthLoopNoRestore(st, i, d) ==
    IF i > Len(assets) THEN st
    ELSE LET acc == Acct(i)
             seen == MonthContext(st.account_attrs[i], d.month, d.year)
         IN IF ~IsActive(acc, d.month, d.year)
            THEN GrowthLoopNoRestore([st EXCEPT !.balance[i] = 0, !.account_attrs[i] = seen], i + 1, d)
            ELSE LET before_growth == st.balance[i]
                     after == ApplyGrowth(acc, before_growth, seen.current_month,
                                          seen.current_year)
                     growth_amount == after - before_growth
                 IN GrowthLoopNoRestore(
                        [st EXCEPT !.balance[i] = after,
                                   !.account_attrs[i] =
                                       SetGrowthRate(seen, CurrentRate(acc, seen.current_month,
                                                                       seen.current_year)),
                                   !.account_initialized[i] = TRUE,
                                   !.active_accounts = Append(@, i),
                                   !.growth = @ + growth_amount,
                                   !.growth_details =
                                       IF growth_amount # 0
                                       THEN Append(@, [name |-> acc.name, amount |-> growth_amount])
                                       ELSE @],
                        i + 1, d)

\* the growth loop over the accounts, from account i on
RECURSIVE GrowthLoop(_, _, _)
GrowthLoop(st, i, d) ==
    IF i > Len(assets) THEN st
    ELSE LET acc == Acct(i)
             seen == MonthContext(st.account_attrs[i], d.month, d.year)
         IN IF ~IsActive(acc, d.month, d.year)
            THEN GrowthLoop([st EXCEPT !.balance[i] = 0, !.account_attrs[i] = seen], i + 1, d)
            ELSE LET before_growth == IF st.account_initialized[i] THEN st.balance[i]
                                      ELSE acc.initial_balance
                     after == ApplyGrowth(acc, before_growth, seen.current_month,
                                          seen.current_year)
                     growth_amount == after - before_growth
                 IN GrowthLoop(
                        [st EXCEPT !.balance[i] = after,
                                   !.account_attrs[i] =
                                       SetGrowthRate(seen, CurrentRate(acc, seen.current_month,
                                                                       seen.current_year)),
                                   !.account_initialized[i] = TRUE,
                                   !.active_accounts = Append(@, i),
                                   !.growth = @ + growth_amount,
                                   !.growth_details =
                                       IF growth_amount # 0
                                       THEN Append(@, [name |-> acc.name, amount |-> growth_amount])
                                       ELSE @],
                        i + 1, d)

\* one applicable standard transaction of account a: balance, tax effect, cash-flow lines
ApplyTransaction(st, a, tx, d, effective_tax_account) ==
    LET applied_amount == AdjustedAmount(AmountWhenApplicable(tx, d.month, d.year),
                                         tx.inflation_schedule, MonthKey(d.year, d.month))
        detail == [name |-> tx.name, amount |-> applied_amount, account |-> Acct(a).name,
                   tx_type |-> tx.tx_type, transaction_id |-> tx.id]
        s1 == [st EXCEPT !.balance[a] = @ + applied_amount,
                         !.applied = Append(@, [date |-> d, id |-> tx.id, name |-> tx.name,
                                                account |-> a, amount |-> applied_amount,
                                                internal |-> tx.internal])]
        target_account == IF effective_tax_account # NoValue THEN effective_tax_account ELSE a
        s2 == IF tx.tax_effect # 0
              THEN [s1 EXCEPT !.balance[target_account] = @ + tx.tax_effect,
                              !.tax = @ + tx.tax_effect,
                              !.tax_details = Append(@, [name |-> tx.name, amount |-> tx.tax_effect,
                                                         account |-> Acct(target_account).name])]
              ELSE s1
    IN IF tx.internal THEN s2
       ELSE IF applied_amount >= 0
            THEN [s2 EXCEPT !.income = @ + applied_amount,
                            !.income_details = Append(@, detail)]
            ELSE [s2 EXCEPT !.expense = @ + applied_amount,
                            !.expense_details = Append(@, detail)]

\* the transactions of one account, in insertion order
RECURSIVE ApplyAccountTransactions(_, _, _, _, _)
ApplyAccountTransactions(st, a, txs, d, effective_tax_account) ==
    IF txs = <<>> THEN st
    ELSE LET next == IF IsApplicable(Head(txs), d.month, d.year)
                     THEN ApplyTransaction(st, a, Head(txs), d, effective_tax_account)
                     ELSE st
         IN ApplyAccountTransactions(next, a, Tail(txs), d, effective_tax_account)

\* faulty variant of StandardLoop: inactive accounts are not skipped
RECURSIVE StandardLoopAllAccounts(_, _, _, _, _)
StandardLoopAllAccounts(st, i, docs, d, active) ==
    IF i > Len(assets) THEN st
    ELSE StandardLoopAllAccounts(
             ApplyAccountTransactions(st, i,
                 AccountTransactions(docs, i, ScenarioDefaults(scenario)), d, PickTaxAccount(active)),
             i + 1, docs, d, active)

\* the standard-transaction loop over the accounts, from account i on; inactive accounts are skipped
RECURSIVE StandardLoop(_, _, _, _, _)
StandardLoop(st, i, docs, d, active) ==
    IF i > Len(assets) THEN st
    ELSE IF ~InSeq(i, active) THEN StandardLoop(st, i + 1, docs, d, active)
    ELSE StandardLoop(
             ApplyAccountTransactions(st, i,
                 AccountTransactions(docs, i, ScenarioDefaults(scenario)), d, PickTaxAccount(active)),
             i + 1, docs, d, active)

\* txs of simulate_with_taxes: the scenario's transactions and the tax transactions
AllTransactions == transactions \o tax_transactions

\* mort_txs of simulate_with_taxes (income_tax_rate is passed as 0.0)
MortTxs == MortgageInterestTransactions(AllTransactions, ScenarioDefaults(scenario), 0)

\* the while-condition of the month loop
InScenarioWindow(d) == EndsAfterOrNow(scenario.end_year, scenario.end_month, d.year, d.month)

\* growth and active accounts of the month
CompoundAccounts ==
    /\ pc = "growth"
    /\ LET st == GrowthLoop([balance |-> balance, account_attrs |-> account_attrs,
                             account_initialized |-> account_initialized,
                             active_accounts |-> <<>>, growth |-> 0, growth_details |-> <<>>],
                            1, current_date)
       IN /\ balance' = st.balance
          /\ account_attrs' = st.account_attrs
          /\ account_initialized' = st.account_initialized
          /\ active_accounts' = st.active_accounts
          /\ monthly' = [monthly EXCEPT !.growth = st.growth]
          /\ details' = [details EXCEPT !.growth_details = st.growth_details]
    /\ pc' = "standard"
    /\ UNCHANGED <<stored, scenario, assets, transactions, overrides, repo_docs,
                   current_date, account_balance_histories,
                   total_wealth_history, cash_flow_history, tax_rows, tax_transactions,
                   same_vals, iteration, mi, applied, earlier>>

\* all standard transactions of the month, account by account
ApplyStandardTransactions ==
    /\ pc = "standard"
    /\ LET st == StandardLoop([balance |-> balance, income |-> monthly.income,
                               expense |-> monthly.expense, tax |-> monthly.tax,
                               income_details |-> details.income_details,
                               expense_details |-> details.expense_details,
                               tax_details |-> details.tax_details, applied |-> applied],
                              1, AllTransactions, current_date, active_accounts)
       IN /\ balance' = st.balance
          /\ monthly' = [monthly EXCEPT !.income = st.income, !.expense = st.expense,
                                        !.tax = st.tax]
          /\ details' = [details EXCEPT !.income_details = st.income_details,
                                        !.expense_details = st.expense_details,
                                        !.tax_details = st.tax_details]
          /\ applied' = st.applied
    /\ pc' = "interest"
    /\ mi' = 1
    /\ UNCHANGED <<stored, scenario, assets, transactions, overrides, repo_docs,
                   account_attrs, account_initialized, active_accounts,
                   current_date, account_balance_histories, total_wealth_history,
                   cash_flow_history, tax_rows, tax_transactions, same_vals, iteration,
                   earlier>>

\* one mortgage-interest transaction of the month, in list order
ApplyMortgageInterest ==
    /\ pc = "interest"
    /\ mi <= Len(MortTxs)
    /\ LET itx == MortTxs[mi]
           m == current_date.month
           y == current_date.year
           amount == -PeriodicInterest(itx, GetBalance(itx.mortgage_account), m, y)
           payer == itx.pay_from_account
           effective_tax_account == PickTaxAccount(active_accounts)
           target_account == IF effective_tax_account # NoValue THEN effective_tax_account
                             ELSE payer
           tax_effect == Abs(amount) * Abs(itx.tax_rate)
           afterInterest == [balance EXCEPT ![payer] = @ + amount]
       IN /\ IF /\ InterestIsApplicable(itx, m, y)
                /\ IsActive(Acct(itx.mortgage_account), m, y)
                /\ IsActive(Acct(payer), m, y)
             THEN /\ balance' = IF itx.taxable
                                THEN [afterInterest EXCEPT ![target_account] = @ + tax_effect]
                                ELSE afterInterest
                  /\ monthly' = [monthly EXCEPT !.expense = @ + amount,
                                                !.tax = IF itx.taxable THEN @ + tax_effect ELSE @]
                  /\ details' =
                         [details EXCEPT
                             !.expense_details =
                                 Append(@, [name |-> itx.name, amount |-> amount,
                                            account |-> Acct(payer).name,
                                            tx_type |-> "mortgage_interest",
                                            transaction_id |-> itx.id]),
                             !.tax_details =
                                 IF itx.taxable
                                 THEN Append(@, [name |-> itx.name \o " Steuer",
                                                 amount |-> tax_effect,
                                                 account |-> Acct(target_account).name])
                                 ELSE @]
             ELSE UNCHANGED <<balance, monthly, details>>
          \* is_active of the mortgage account, and of the payer when that one is active
          /\ account_attrs' =
                 IF ~InterestIsApplicable(itx, m, y) THEN account_attrs
                 ELSE LET seen == [account_attrs EXCEPT ![itx.mortgage_account] =
                                                            MonthContext(@, m, y)]
                      IN IF IsActive(Acct(itx.mortgage_account), m, y)
                         THEN [seen EXCEPT ![payer] = MonthContext(@, m, y)]
                         ELSE seen
    /\ mi' = mi + 1
    /\ UNCHANGED <<stored, scenario, assets, transactions, overrides, repo_docs,
                   account_initialized, active_accounts,
                   current_date, account_balance_histories, total_wealth_history,
                   cash_flow_history, tax_rows, tax_transactions, same_vals, iteration, pc,
                   applied, earlier>>

\* faulty variant of TotalWealth: liabilities (negative balances) are left out
RECURSIVE TotalWealthOfAssets(_, _)
TotalWealthOfAssets(bal, i) ==
    IF i > Len(assets) THEN 0 ELSE Max(0, bal[i]) + TotalWealthOfAssets(bal, i + 1)

\* total_wealth: the sum of the balances of all accounts
RECURSIVE TotalWealth(_, _)
TotalWealth(bal, i) == IF i > Len(assets) THEN 0 ELSE bal[i] + TotalWealth(bal, i + 1)

\* faulty variant of CashFlowRecord: the month's growth counts as cash flow
CashFlowRecordWithGrowth(d, mon, det) ==
    [date |-> d, income |-> mon.income, expenses |-> mon.expense, growth |-> mon.growth,
     taxes |-> mon.tax, net |-> mon.income + mon.expense + mon.tax + mon.growth,
     income_details |-> det.income_details, expense_details |-> det.expense_details,
     growth_details |-> det.growth_details, tax_details |-> det.tax_details]

\* the cash-flow record of the month
CashFlowRecord(d, mon, det) ==
    [date |-> d, income |-> mon.income, expenses |-> mon.expense, growth |-> mon.growth,
     taxes |-> mon.tax, net |-> mon.income + mon.expense + mon.tax,
     income_details |-> det.income_details, expense_details |-> det.expense_details,
     growth_details |-> det.growth_details, tax_details |-> det.tax_details]

\* histories of the month, then the next month or the end of the pass
Snapshot ==
    /\ pc = "interest"
    /\ mi > Len(MortTxs)
    /\ account_balance_histories' =
           [i \in AccountIds |-> Append(account_balance_histories[i],
                                        [date |-> current_date, value |-> balance[i]])]
    /\ total_wealth_history' =
           Append(total_wealth_history, [date |-> current_date, value |-> TotalWealth(balance, 1)])
    /\ cash_flow_history' = Append(cash_flow_history, CashFlowRecord(current_date, monthly, details))
    /\ current_date' = NextMonth(current_date)
    /\ pc' = IF InScenarioWindow(NextMonth(current_date)) THEN "growth" ELSE "collect"
    /\ monthly' = MonthlyZero
    /\ details' = DetailsZero
    /\ active_accounts' = <<>>
    /\ mi' = 1
    /\ UNCHANGED <<stored, scenario, assets, transactions, overrides, repo_docs,
                   balance, account_attrs, account_initialized,
                   tax_rows, tax_transactions, same_vals, iteration, applied, earlier>>

\* ---------------------------------------------------------------- taxes
\* units of an amount per currency unit (amounts are fixed point with four decimals)
Scale == 10000

\* floor(a * b / c) for b >= 0, c > 0, without an intermediate product beyond a * b / c
MulDiv(a, b, c) == (a \div c) * b + ((a % c) * b) \div c

\* an amount x (in units) compared with a whole number n of currency units
AtLeast(x, n) == x \div Scale >= n

Below(x, n) == x \div Scale < n

\* DEFAULT_INCOME_BRACKETS: cap in currency units (NoValue: no cap), rate in 1/10000
DEFAULT_INCOME_BRACKETS ==
    <<[cap |-> 6900, rate |-> 0],
      [cap |-> 4900, rate |-> 200],
      [cap |-> 4800, rate |-> 300],
      [cap |-> 7900, rate |-> 400],
      [cap |-> 9600, rate |-> 500],
      [cap |-> 11000, rate |-> 600],
      [cap |-> 12900, rate |-> 700],
      [cap |-> 17400, rate |-> 800],
      [cap |-> 33600, rate |-> 900],
      [cap |-> 33200, rate |-> 1000],
      [cap |-> 52700, rate |-> 1100],
      [cap |-> 68400, rate |-> 1200],
      [cap |-> NoValue, rate |-> 1300]>>

\* DEFAULT_WEALTH_BRACKETS: cap in currency units (NoValue: no cap), rate in 1/10000
DEFAULT_WEALTH_BRACKETS ==
    <<[cap |-> 80000, rate |-> 0],
      [cap |-> 238000, rate |-> 5],
      [cap |-> 399000, rate |-> 10],
      [cap |-> 636000, rate |-> 15],
      [cap |-> 956000, rate |-> 20],
      [cap |-> 953000, rate |-> 25],
      [cap |-> NoValue, rate |-> 30]>>

\* DEFAULT_FEDERAL_TABLE: income in currency units, base and per100 in 1/100 of a unit
DEFAULT_FEDERAL_TABLE ==
    <<[income |-> 18500, base |-> 2541, per100 |-> 77],
      [income |-> 19000, base |-> 2926, per100 |-> 77],
      [income |-> 20000, base |-> 3696, per100 |-> 77],
      [income |-> 21000, base |-> 4466, per100 |-> 77],
      [income |-> 22000, base |-> 5236, per100 |-> 77],
      [income |-> 23000, base |-> 6006, per100 |-> 77],
      [income |-> 24000, base |-> 6776, per100 |-> 77],
      [income |-> 25000, base |-> 7546, per100 |-> 77],
      [income |-> 26000, base |-> 8316, per100 |-> 77],
      [income |-> 27000, base |-> 9086, per100 |-> 77],
      [income |-> 28000, base |-> 9856, per100 |-> 77],
      [income |-> 29000, base |-> 10626, per100 |-> 77],
      [income |-> 30000, base |-> 11396, per100 |-> 700],
      [income |-> 33000, base |-> 13706, per100 |-> 3300],
      [income |-> 33200, base |-> 13860, per100 |-> 3500],
      [income |-> 33300, base |-> 13948, per100 |-> 88],
      [income |-> 34000, base |-> 14564, per100 |-> 4300],
      [income |-> 35000, base |-> 15444, per100 |-> 5300],
      [income |-> 36000, base |-> 16324, per100 |-> 6300],
      [income |-> 37000, base |-> 17204, per100 |-> 7300],
      [income |-> 38000, base |-> 18084, per100 |-> 8300],
      [income |-> 39000, base |-> 18964, per100 |-> 9300],
      [income |-> 40000, base |-> 19844, per100 |-> 10300],
      [income |-> 41000, base |-> 20724, per100 |-> 11300],
      [income |-> 42000, base |-> 21604, per100 |-> 12300],
      [income |-> 43500, base |-> 22920, per100 |-> 13800],
      [income |-> 43600, base |-> 23184, per100 |-> 264],
      [income |-> 44000, base |-> 24240, per100 |-> 14300],
      [income |-> 45000, base |-> 26880, per100 |-> 15300],
      [income |-> 46000, base |-> 29520, per100 |-> 16300],
      [income |-> 47000, base |-> 32160, per100 |-> 17300],
      [income |-> 48000, base |-> 34800, per100 |-> 18300],
      [income |-> 49000, base |-> 37440, per100 |-> 19300],
      [income |-> 50000, base |-> 40080, per100 |-> 20300],
      [income |-> 51000, base |-> 42720, per100 |-> 21300],
      [income |-> 53400, base |-> 49056, per100 |-> 23700],
      [income |-> 53500, base |-> 49320, per100 |-> 23900],
      [income |-> 54000, base |-> 50640, per100 |-> 24900],
      [income |-> 55000, base |-> 53280, per100 |-> 26900],
      [income |-> 56000, base |-> 55920, per100 |-> 28900],
      [income |-> 57000, base |-> 58560, per100 |-> 30900],
      [income |-> 58000, base |-> 61200, per100 |-> 32900],
      [income |-> 58100, base |-> 61497, per100 |-> 297],
      [income |-> 59000, base |-> 64170, per100 |-> 34900],
      [income |-> 60000, base |-> 67140, per100 |-> 36900],
      [income |-> 61300, base |-> 71001, per100 |-> 39500],
      [income |-> 61400, base |-> 71298, per100 |-> 39800],
      [income |-> 65000, base |-> 81990, per100 |-> 50600],
      [income |-> 70000, base |-> 96840, per100 |-> 65600],
      [income |-> 75000, base |-> 111690, per100 |-> 80600],
      [income |-> 76100, base |-> 114955, per100 |-> 83900],
      [income |-> 76200, base |-> 115549, per100 |-> 594],
      [income |-> 77500, base |-> 123271, per100 |-> 88100],
      [income |-> 79100, base |-> 132775, per100 |-> 92900],
      [income |-> 79200, base |-> 133369, per100 |-> 93300],
      [income |-> 82000, base |-> 150000, per100 |-> 104500],
      [income |-> 82100, base |-> 150660, per100 |-> 660],
      [income |-> 85000, base |-> 169800, per100 |-> 116500],
      [income |-> 90000, base |-> 202800, per100 |-> 136500],
      [income |-> 94900, base |-> 235140, per100 |-> 156100],
      [income |-> 95000, base |-> 235800, per100 |-> 156600],
      [income |-> 100000, base |-> 268800, per100 |-> 181600],
      [income |-> 105000, base |-> 301800, per100 |-> 206600],
      [income |-> 108600, base |-> 325560, per100 |-> 224600],
      [income |-> 108700, base |-> 326220, per100 |-> 225200],
      [income |-> 108800, base |-> 326880, per100 |-> 225800],
      [income |-> 108900, base |-> 327760, per100 |-> 880],
      [income |-> 110000, base |-> 337440, per100 |-> 233000],
      [income |-> 115000, base |-> 381440, per100 |-> 263000],
      [income |-> 120500, base |-> 429840, per100 |-> 296000],
      [income |-> 120600, base |-> 430720, per100 |-> 296700],
      [income |-> 125000, base |-> 469440, per100 |-> 327500],
      [income |-> 130000, base |-> 513440, per100 |-> 362500],
      [income |-> 130500, base |-> 517840, per100 |-> 366000],
      [income |-> 130600, base |-> 518720, per100 |-> 366800],
      [income |-> 135000, base |-> 557440, per100 |-> 402000],
      [income |-> 138300, base |-> 586480, per100 |-> 428400],
      [income |-> 138400, base |-> 587360, per100 |-> 429300],
      [income |-> 141500, base |-> 614640, per100 |-> 457200],
      [income |-> 141600, base |-> 615740, per100 |-> 1100],
      [income |-> 144200, base |-> 644340, per100 |-> 481500],
      [income |-> 144300, base |-> 645440, per100 |-> 482500],
      [income |-> 148200, base |-> 688340, per100 |-> 521500],
      [income |-> 148300, base |-> 689440, per100 |-> 522600],
      [income |-> 150300, base |-> 711440, per100 |-> 544600],
      [income |-> 150400, base |-> 712540, per100 |-> 545800],
      [income |-> 151000, base |-> 719140, per100 |-> 553000],
      [income |-> 152300, base |-> 733440, per100 |-> 568600],
      [income |-> 152400, base |-> 734540, per100 |-> 569900],
      [income |-> 155000, base |-> 763140, per100 |-> 603700],
      [income |-> 160000, base |-> 818140, per100 |-> 668700],
      [income |-> 170000, base |-> 928140, per100 |-> 798700],
      [income |-> 184900, base |-> 1092040, per100 |-> 992400],
      [income |-> 185000, base |-> 1093360, per100 |-> 1320],
      [income |-> 186000, base |-> 1106560, per100 |-> 1006700],
      [income |-> 190000, base |-> 1159360, per100 |-> 1058700],
      [income |-> 200000, base |-> 1291360, per100 |-> 1188700],
      [income |-> 250000, base |-> 1951360, per100 |-> 1838700],
      [income |-> 300000, base |-> 2611360, per100 |-> 2488700],
      [income |-> 350000, base |-> 3271360, per100 |-> 3138700],
      [income |-> 400000, base |-> 3931360, per100 |-> 3788700],
      [income |-> 500000, base |-> 5251360, per100 |-> 5088700],
      [income |-> 650000, base |-> 7231360, per100 |-> 7038700],
      [income |-> 700000, base |-> 7891360, per100 |-> 7688700],
      [income |-> 793300, base |-> 9122920, per100 |-> 8901600],
      [income |-> 793400, base |-> 9124100, per100 |-> 1150],
      [income |-> 800000, base |-> 9200000, per100 |-> 8988700],
      [income |-> 940800, base |-> 10819200, per100 |-> 10819100],
      [income |-> 940900, base |-> 10820350, per100 |-> 10820350],
      [income |-> 950000, base |-> 10925000, per100 |-> 10820350]>>

\* _calc_progressive: the brackets consume slices of the amount left to right
RECURSIVE ProgressiveFrom(_, _)
ProgressiveFrom(remaining, brackets) ==
    IF brackets = <<>> \/ remaining <= 0 THEN 0
    ELSE LET entry == Head(brackets)
             slice_amt == IF entry.cap = NoValue THEN remaining
                          ELSE IF AtLeast(remaining, entry.cap) THEN entry.cap * Scale
                          ELSE remaining
         IN MulDiv(slice_amt, entry.rate, 10000) + ProgressiveFrom(remaining - slice_amt, Tail(brackets))

CalcProgressive(amount, brackets) == ProgressiveFrom(Max(0, amount), brackets)

\* faulty variant of SafePer100: every row is charged the clamp value
ClampedPer100(val) == 1150

\* _safe_per100 (in 1/100 of a unit): negative values become 0, values above 20 become 11.5
SafePer100(val) == IF Max(0, val) > 2000 THEN 1150 ELSE Max(0, val)

\* base + ((taxable - income) / 100) * per100 of a table row
FederalRow(taxable, row) ==
    row.base * 100 + MulDiv(taxable - row.income * Scale, SafePer100(row.per100), 10000)

\* the row search of _calc_federal, from row i on
RECURSIVE FederalSearch(_, _, _)
FederalSearch(taxable, table, i) ==
    IF i >= Len(table)
    THEN table[Len(table)].base * 100 + MulDiv(taxable - table[Len(table)].income * Scale, 115, 1000)
    ELSE IF AtLeast(taxable, table[i].income) /\ Below(taxable, table[i + 1].income)
         THEN FederalRow(taxable, table[i])
         ELSE FederalSearch(taxable, table, i + 1)

\* _calc_federal (the table is stored sorted by income)
CalcFederal(income, table) ==
    LET taxable == Max(0, income)
    IN IF table = <<>> THEN 0
       ELSE IF taxable <= table[1].income * Scale THEN FederalRow(taxable, table[1])
       ELSE FederalSearch(taxable, table, 1)

\* add_entry of _collect_yearly_tax: store maps a year to its taxable income and expense
AddEntry(store, year, income_add, expense_add) ==
    LET entry == IF year \in DOMAIN store THEN store[year] ELSE [income |-> 0, expense |-> 0]
    IN (year :> [income |-> entry.income + income_add, expense |-> entry.expense + expense_add])
           @@ store

\* the safety limit of the occurrence walk of a regular transaction
OccurrenceLimit == 1000

\* the occurrence walk of a regular transaction: one entry per occurrence from (y, m) to the end
RECURSIVE RegularOccurrences(_, _, _, _, _, _, _, _, _)
RegularOccurrences(store, y, m, end_year, end_month, freq, income_add, expense_add, counter) ==
    IF ~(y < end_year \/ (y = end_year /\ m <= end_month)) THEN store
    ELSE LET added == AddEntry(store, y, income_add, expense_add)
             y2 == y + (m + freq - 1) \div 12
             m2 == ((m + freq - 1) % 12) + 1
         IN IF counter + 1 > OccurrenceLimit THEN added
            ELSE RegularOccurrences(added, y2, m2, end_year, end_month, freq,
                                    income_add, expense_add, counter + 1)

\* tx.get("taxable_amount", tx.get("amount", 0.0)) or 0.0, as an absolute value
TaxableAmount(tx) == Abs(IF tx.taxable_amount # <<>> THEN tx.taxable_amount[1] ELSE tx.amount)

\* the taxable one-time and regular transactions, credited to the years of their occurrences
RECURSIVE TaxableMap(_, _)
TaxableMap(store, docs) ==
    IF docs = <<>> THEN store
    ELSE LET tx == Head(docs)
             amount == TaxableAmount(tx)
             start_year == Or(tx.start_year, 0)
             start_month == Or(tx.start_month, 1)
             end_year == Or(tx.end_year, start_year)
             end_month == Or(tx.end_month, start_month)
             freq == Max(1, Or(tx.frequency, 1))
             is_expense == tx.entry = "credit" \/ tx.amount < 0
             income_add == IF is_expense THEN 0 ELSE amount
             expense_add == IF is_expense THEN amount ELSE 0
             next == IF ~tx.taxable \/ tx.type = "mortgage_interest" THEN store
                     ELSE IF tx.type = "regular"
                          THEN RegularOccurrences(store, start_year, start_month, end_year,
                                                  end_month, freq, income_add, expense_add, 0)
                          ELSE AddEntry(store, start_year, income_add, expense_add)
         IN TaxableMap(next, Tail(docs))

\* taxable_mortgage_ids / taxable_mortgage_names
TaxableMortgageIds(docs) ==
    {docs[k].id : k \in {j \in 1..Len(docs) :
        docs[j].type = "mortgage_interest" /\ docs[j].taxable /\ docs[j].id # NoValue}}

TaxableMortgageNames(docs) ==
    {docs[k].name : k \in {j \in 1..Len(docs) :
        docs[j].type = "mortgage_interest" /\ docs[j].taxable /\ docs[j].name # ""}}

\* the mortgage-interest expense details of one cash-flow record, credited to its year
RECURSIVE MortgageDetails(_, _, _, _, _)
MortgageDetails(store, year, expense_details, ids, names) ==
    IF expense_details = <<>> THEN store
    ELSE LET detail == Head(expense_details)
             amount == Abs(detail.amount)
             counted == /\ detail.tx_type = "mortgage_interest"
                        /\ \/ (detail.transaction_id # NoValue /\ detail.transaction_id \in ids)
                           \/ (detail.name # "" /\ detail.name \in names)
                        /\ amount # 0
         IN MortgageDetails(IF counted THEN AddEntry(store, year, 0, amount) ELSE store,
                            year, Tail(expense_details), ids, names)

\* the interest actually paid, read from the cash flows of the simulation
RECURSIVE MortgageExpenses(_, _, _, _)
MortgageExpenses(store, cash_flows, ids, names) ==
    IF cash_flows = <<>> \/ (ids = {} /\ names = {}) THEN store
    ELSE MortgageExpenses(
             MortgageDetails(store, Head(cash_flows).date.year, Head(cash_flows).expense_details,
                             ids, names),
             Tail(cash_flows), ids, names)

\* wealth_per_year: the last total of each year
RECURSIVE WealthPerYear(_, _)
WealthPerYear(store, total_history) ==
    IF total_history = <<>> THEN store
    ELSE WealthPerYear((Head(total_history).date.year :> Head(total_history).value) @@ store,
                       Tail(total_history))

\* sorted(...) of a set of years
RECURSIVE SortedYears(_)
SortedYears(S) ==
    IF S = {} THEN <<>>
    ELSE LET least == CHOOSE y \in S : \A z \in S : y <= z
         IN <<least>> \o SortedYears(S \ {least})

\* scenario.get(key, default) of a tax setting: the default only when the key is absent
TaxSetting(setting, default) == IF setting.kind = "absent" THEN default ELSE setting.value

\* a stored null among the tax settings makes the per-year formula raise TypeError
TaxSettingsUsable(sc) ==
    /\ sc.municipal_tax_factor.kind # "null"
    /\ sc.cantonal_tax_factor.kind # "null"
    /\ sc.church_tax_factor.kind # "null"
    /\ sc.personal_tax_per_person.kind # "null"

\* one row of the per-year tax formula (factors in 1/100, personal tax in currency units)
TaxRow(year, taxable_map, wealth_per_year, sc) ==
    LET net_income == IF year \in DOMAIN taxable_map
                      THEN taxable_map[year].income - taxable_map[year].expense
                      ELSE 0
        wealth_val == IF year \in DOMAIN wealth_per_year THEN wealth_per_year[year] ELSE NoValue
        income_tax == CalcProgressive(net_income, DEFAULT_INCOME_BRACKETS)
        wealth_tax == CalcProgressive(wealth_val, DEFAULT_WEALTH_BRACKETS)
        base_tax == income_tax + wealth_tax
        personal_tax == TaxSetting(sc.personal_tax_per_person, 24) * Scale
        tax_total == MulDiv(base_tax, TaxSetting(sc.municipal_tax_factor, 115), 100)
                     + MulDiv(base_tax, TaxSetting(sc.cantonal_tax_factor, 98), 100)
                     + MulDiv(base_tax, TaxSetting(sc.church_tax_factor, 14), 100)
                     + personal_tax
        federal_tax == CalcFederal(net_income, DEFAULT_FEDERAL_TABLE)
    IN [year |-> year, net |-> net_income, wealth |-> wealth_val, incomeTax |-> income_tax,
        wealthTax |-> wealth_tax, baseTax |-> base_tax, personalTax |-> personal_tax,
        taxTotal |-> tax_total, federalTax |-> federal_tax, totalAll |-> tax_total + federal_tax]

\* _collect_yearly_tax: one row per year, sorted by year
CollectYearlyTax(docs, cash_flows, total_history, sc) ==
    LET taxable_map == MortgageExpenses(TaxableMap(<<>>, docs), cash_flows,
                                        TaxableMortgageIds(docs), TaxableMortgageNames(docs))
        wealth_per_year == WealthPerYear(<<>>, total_history)
        years == SortedYears(DOMAIN taxable_map \cup DOMAIN wealth_per_year)
    IN [k \in 1..Len(years) |-> TaxRow(years[k], taxable_map, wealth_per_year, sc)]

\* ---------------------------------------------------------------- the tax iteration
max_iterations == 10

\* 0.01, the largest change of a year's totalAll that still counts as converged (exclusive)
Tolerance == 100

\* faulty variant of SameVals: the rows of the same years count as converged
SameYears(new_rows, prev_rows) ==
    /\ Len(new_rows) = Len(prev_rows)
    /\ \A k \in 1..Len(new_rows) : new_rows[k].year = prev_rows[k].year

\* same_vals of the tax iteration: same years, and every year's totalAll within the tolerance
SameVals(new_rows, prev_rows) ==
    /\ Len(new_rows) = Len(prev_rows)
    /\ \A k \in 1..Len(new_rows) : new_rows[k].year = prev_rows[k].year
    /\ \A k \in 1..Len(new_rows) :
           Abs(Or(new_rows[k].totalAll, 0) - Or(prev_rows[k].totalAll, 0)) < Tolerance

\* a transaction document with every optional field unset
EmptyDoc ==
    [id |-> NoValue, name |-> "", type |-> "one_time", asset_id |-> NoValue, amount |-> 0,
     start_year |-> NoValue, start_month |-> NoValue, end_year |-> NoValue, end_month |-> NoValue,
     frequency |-> NoValue, annual_growth_rate |-> 0, annual_interest_rate |-> NoValue,
     mortgage_asset_id |-> NoValue, double_entry |-> FALSE, counter_asset_id |-> NoValue,
     link_id |-> NoValue, entry |-> "", taxable |-> FALSE, taxable_amount |-> <<>>,
     rate_schedule |-> <<>>, inflation_schedule |-> <<>>]

\* faulty variant of TaxesToTransactions: no charge is injected
TaxesToTransactionsNone(rows) == <<>>

\* taxes_to_transactions: one december charge per row with a non-zero totalAll
RECURSIVE TaxesToTransactions(_)
TaxesToTransactions(rows) ==
    IF rows = <<>> THEN <<>>
    ELSE LET row == Head(rows)
             total_all == Or(row.totalAll, 0)
             doc == [EmptyDoc EXCEPT
                        !.asset_id = Or(scenario.tax_account_id, assets[1].id),
                        !.name = "Steuern " \o ToString(row.year),
                        !.amount = -Abs(total_all),
                        !.start_year = row.year, !.start_month = 12,
                        !.end_year = row.year, !.end_month = 12]
         IN (IF total_all = 0 THEN <<>> ELSE <<doc>>) \o TaxesToTransactions(Tail(rows))

ScenarioStart == Date(scenario.start_year, scenario.start_month)

\* faulty variant of InitializedAtStart: the flags of the previous call are kept
InitializedLeft(left) == left

\* account_initialized of a call of the simulation: no account is initialized, whatever the
\* previous call left
InitializedAtStart(left) == [i \in DOMAIN left |-> FALSE]

\* faulty variant of RunsAnotherPass: the loop runs until the rows converge
RunsUntilConverged(converged, passes) == ~converged

\* the for-loop goes round again: no break, and a pass of range(max_iterations) is left
RunsAnotherPass(converged, passes) == ~converged /\ passes < max_iterations

\* new_tax_rows of a pass, the convergence test, and the next pass or the end of the loop
CollectTaxes ==
    /\ pc = "collect"
    /\ IF ~TaxSettingsUsable(scenario) /\ total_wealth_history # <<>>
       THEN /\ pc' = "error"
            /\ UNCHANGED <<tax_rows, tax_transactions, same_vals, iteration, balance,
                           account_initialized,
                           account_balance_histories, total_wealth_history, cash_flow_history,
                           current_date, applied>>
       ELSE LET new_tax_rows == CollectYearlyTax(transactions, cash_flow_history,
                                                 total_wealth_history, scenario)
                again == RunsAnotherPass(same_vals', iteration)
            IN /\ same_vals' = SameVals(new_tax_rows, tax_rows)
               /\ tax_rows' = new_tax_rows
               /\ tax_transactions' = IF same_vals' THEN tax_transactions
                                      ELSE TaxesToTransactions(new_tax_rows)
               /\ IF again
                  THEN /\ iteration' = iteration + 1
                       /\ balance' = [i \in AccountIds |-> Acct(i).initial_balance]
                       /\ account_initialized' = InitializedAtStart(account_initialized)
                       /\ account_balance_histories' = [i \in AccountIds |-> <<>>]
                       /\ total_wealth_history' = <<>>
                       /\ cash_flow_history' = <<>>
                       /\ current_date' = ScenarioStart
                       /\ applied' = <<>>
                       /\ pc' = IF InScenarioWindow(ScenarioStart) THEN "growth" ELSE "collect"
                  ELSE /\ pc' = "done"
                       /\ UNCHANGED <<iteration, balance, account_initialized,
                                      account_balance_histories, total_wealth_history,
                                      cash_flow_history, current_date, applied>>
    /\ UNCHANGED <<stored, scenario, assets, transactions, overrides, repo_docs,
                   account_attrs, active_accounts, monthly, details, mi, earlier>>

\* ---------------------------------------------------------------- overrides
\* a value that is tested with `is None`: <<>> is None, <<v>> is the value v
None == <<>>

Some(v) == <<v>>

\* _to_key of _apply_overrides
ToKey(year, month) == IF year = NoValue \/ month = NoValue THEN NoValue ELSE year * 100 + month

\* overrides without a key: None and {} alike (`not overrides`)
NoOverrides ==
    [income_tax_override |-> None, portfolio_growth_pct |-> None,
     portfolio_start_year |-> NoValue, portfolio_start_month |-> NoValue,
     portfolio_end_year |-> NoValue, portfolio_end_month |-> NoValue,
     portfolio_shocks |-> <<>>, real_estate_shocks |-> <<>>, mortgage_rate_shocks |-> <<>>,
     inflation_shocks |-> <<>>, income_tax_shocks |-> <<>>]

\* collect_shocks: the entries with a pct, their windows as keys
RECURSIVE CollectShocks(_)
CollectShocks(entries) ==
    IF entries = <<>> THEN <<>>
    ELSE LET entry == Head(entries)
         IN (IF entry.pct = None THEN <<>>
             ELSE <<[pct |-> entry.pct[1],
                     start |-> ToKey(entry.start_year, entry.start_month),
                     end |-> ToKey(entry.end_year, entry.end_month)]>>)
            \o CollectShocks(Tail(entries))

\* portfolio_shocks: the explicit list, else the single legacy fields
PortfolioShocks(ov) ==
    LET listed == CollectShocks(ov.portfolio_shocks)
    IN IF listed = <<>> /\ ov.portfolio_growth_pct # None
       THEN <<[pct |-> ov.portfolio_growth_pct[1],
               start |-> ToKey(ov.portfolio_start_year, ov.portfolio_start_month),
               end |-> ToKey(ov.portfolio_end_year, ov.portfolio_end_month)]>>
       ELSE listed

\* the schedule entries one shock list adds: rate = base + pct per shock
RateEntries(base, shocks) ==
    [k \in 1..Len(shocks) |->
        [start |-> shocks[k].start, end |-> shocks[k].end, rate |-> base + shocks[k].pct]]

\* apply_shocks on one asset: portfolio and real-estate shocks extend its growth_schedule
ShockedAsset(asset, ov) ==
    LET shocks == IF asset.asset_type = "portfolio" THEN PortfolioShocks(ov)
                  ELSE IF asset.asset_type = "real_estate"
                       THEN CollectShocks(ov.real_estate_shocks)
                       ELSE <<>>
    IN [asset EXCEPT !.growth_schedule = @ \o RateEntries(Or(asset.annual_growth_rate, 0), shocks)]

\* mortgage-rate shocks extend the rate_schedule of a mortgage-interest transaction,
\* inflation shocks the inflation_schedule of every other transaction
ShockedTransaction(tx, ov) ==
    IF tx.type = "mortgage_interest"
    THEN [tx EXCEPT !.rate_schedule =
                @ \o RateEntries(Or(Or(tx.annual_interest_rate, tx.annual_growth_rate), 0),
                                 CollectShocks(ov.mortgage_rate_shocks))]
    ELSE LET shocks == CollectShocks(ov.inflation_shocks)
         IN [tx EXCEPT !.inflation_schedule =
                 @ \o [k \in 1..Len(shocks) |->
                          [start |-> shocks[k].start, end |-> shocks[k].end,
                           pct |-> shocks[k].pct]]]

\* income_tax_override replaces the scenario's income_tax_rate
OverriddenScenario(sc, ov) ==
    IF ov.income_tax_override # None
    THEN [sc EXCEPT !.income_tax_rate = ov.income_tax_override[1]]
    ELSE sc

\* the document objects of a run: the k-th document of a kind as the repository returned
\* it, and the copy _apply_overrides made of it
Returned(kind, k) == [kind |-> kind, index |-> k, copy |-> FALSE]

\* faulty variant of Deepcopy: the object itself
SameObject(ref) == ref

\* deepcopy(doc) and {**doc}: a new object
Deepcopy(ref) == [ref EXCEPT !.copy = TRUE]

\* the objects _apply_overrides works on
Adjusted(kind, n) == {Deepcopy(Returned(kind, k)) : k \in 1..n}

\* _apply_overrides: the content of every document object after the call; the shocks are
\* written into the objects the copies yielded
Heap(sc, asset_docs, tx_docs, ov) ==
    LET content(ref) == IF ref.kind = "scenario" THEN sc
                        ELSE IF ref.kind = "asset" THEN asset_docs[ref.index]
                        ELSE tx_docs[ref.index]
        returned == {Returned("scenario", 1)}
                    \cup {Returned("asset", k) : k \in 1..Len(asset_docs)}
                    \cup {Returned("transaction", k) : k \in 1..Len(tx_docs)}
        adjusted == Adjusted("scenario", 1) \cup Adjusted("asset", Len(asset_docs))
                    \cup Adjusted("transaction", Len(tx_docs))
    IN [ref \in returned \cup adjusted |->
           IF ov = NoOverrides \/ ref \notin adjusted THEN content(ref)
           ELSE IF ref.kind = "scenario" THEN OverriddenScenario(content(ref), ov)
           ELSE IF ref.kind = "asset" THEN ShockedAsset(content(ref), ov)
           ELSE ShockedTransaction(content(ref), ov)]

\* the tax-shock block of run_scenario_simulation calls _to_key, a name local to
\* _apply_overrides, for every shock with a pct: NameError
TaxShocksRaise(ov) == \E k \in 1..Len(ov.income_tax_shocks) : ov.income_tax_shocks[k].pct # None

\* run_scenario_simulation up to the tax iteration: _apply_overrides rebinds scenario,
\* assets and transactions, then the income-tax shocks are read
ApplyOverrides ==
    /\ pc = "load"
    /\ LET heap == Heap(scenario, assets, transactions, overrides)
           working(kind, k) == IF overrides = NoOverrides THEN Returned(kind, k)
                               ELSE Deepcopy(Returned(kind, k))
       IN /\ scenario' = heap[working("scenario", 1)]
          /\ assets' = [k \in 1..Len(assets) |-> heap[working("asset", k)]]
          /\ transactions' = [k \in 1..Len(transactions) |-> heap[working("transaction", k)]]
          /\ repo_docs' = [scenario |-> heap[Returned("scenario", 1)],
                           assets |-> [k \in 1..Len(assets) |-> heap[Returned("asset", k)]],
                           transactions |-> [k \in 1..Len(transactions) |->
                                                heap[Returned("transaction", k)]]]
    /\ pc' = IF TaxShocksRaise(overrides) THEN "error" ELSE "growth"
    /\ UNCHANGED <<stored, overrides, balance, account_attrs, account_initialized,
                   active_accounts, current_date,
                   monthly, details, account_balance_histories, total_wealth_history,
                   cash_flow_history, tax_rows, tax_transactions, same_vals, iteration, mi,
                   applied, earlier>>

\* ---------------------------------------------------------------- scenarios explored
\* n currency units as an amount
CHF(n) == n * Scale

\* the month k months after d
RECURSIVE AddMonths(_, _)
AddMonths(d, k) == IF k = 0 THEN d ELSE AddMonths(NextMonth(d), k - 1)

FirstMonth == Date(2024, 11)

LastMonth == AddMonths(FirstMonth, Horizon - 1)

Setting(v) == [kind |-> "value", value |-> v]

\* a scenario document over the window FirstMonth..LastMonth
ScenarioDoc(tax_account_id) ==
    [start_year |-> FirstMonth.year, start_month |-> FirstMonth.month,
     end_year |-> LastMonth.year, end_month |-> LastMonth.month,
     tax_account_id |-> tax_account_id, income_tax_rate |-> NoValue,
     municipal_tax_factor |-> Setting(115), cantonal_tax_factor |-> Setting(98),
     church_tax_factor |-> Setting(14), personal_tax_per_person |-> Setting(24)]

\* active windows of an asset: the scenario's (no dates stored), a late start, an early end
Whole == [start_year |-> NoValue, start_month |-> NoValue, end_year |-> NoValue, end_month |-> NoValue]

LateStart == [Whole EXCEPT !.start_year = 2025, !.start_month = 1]

EarlyEnd == [Whole EXCEPT !.end_year = 2024, !.end_month = 12]

AssetWindows == {Whole, LateStart, EarlyEnd}

AssetDoc(id, name, asset_type, annual_growth_rate, initial_balance, w) ==
    [id |-> id, name |-> name, asset_type |-> asset_type,
     annual_growth_rate |-> annual_growth_rate, initial_balance |-> initial_balance,
     start_year |-> w.start_year, start_month |-> w.start_month,
     end_year |-> w.end_year, end_month |-> w.end_month, growth_schedule |-> <<>>]

\* annual rates whose monthly rate is 0 and 1
GrowthRates == {0, 4095}

Bank(growth, w) == AssetDoc(1, "Konto", "bank_account", growth, 1000, w)

Mortgage(growth, w) == AssetDoc(2, "Hypothek", "mortgage", growth, -1200, w)

\* documents get their ids from their position in the collection
WithIds(docs) == [k \in 1..Len(docs) |-> [docs[k] EXCEPT !.id = k]]

RegularDoc(name, asset_id, amount, sy, sm, ey, em, frequency, growth) ==
    [EmptyDoc EXCEPT !.type = "regular", !.name = name, !.asset_id = asset_id, !.amount = amount,
                     !.start_year = sy, !.start_month = sm, !.end_year = ey, !.end_month = em,
                     !.frequency = frequency, !.annual_growth_rate = growth]

OneTimeDoc(name, asset_id, amount, sy, sm) ==
    [EmptyDoc EXCEPT !.name = name, !.asset_id = asset_id, !.amount = amount,
                     !.start_year = sy, !.start_month = sm, !.end_year = sy, !.end_month = sm]

InterestDoc(name, payer, mortgage, rate, frequency, sy, sm, taxable) ==
    [EmptyDoc EXCEPT !.type = "mortgage_interest", !.name = name, !.asset_id = payer,
                     !.mortgage_asset_id = mortgage, !.annual_interest_rate = rate,
                     !.frequency = frequency, !.start_year = sy, !.start_month = sm,
                     !.taxable = taxable]

\* add_linked_transactions: the debit and the credit document of a double entry
LinkedDocs(debit_asset_id, credit_asset_id, name, amount, type, sy, sm, ey, em, frequency) ==
    LET base == [EmptyDoc EXCEPT !.name = name, !.type = type, !.start_year = sy,
                                 !.start_month = sm, !.end_year = ey, !.end_month = em,
                                 !.frequency = frequency, !.double_entry = TRUE, !.link_id = 1]
    IN << [base EXCEPT !.asset_id = debit_asset_id, !.counter_asset_id = credit_asset_id,
                       !.amount = amount, !.entry = "debit"],
          [base EXCEPT !.asset_id = credit_asset_id, !.counter_asset_id = debit_asset_id,
                       !.amount = -amount, !.entry = "credit"] >>

Input(tax_account_id, asset_docs, tx_docs) ==
    [scenario |-> ScenarioDoc(tax_account_id), assets |-> asset_docs,
     transactions |-> WithIds(tx_docs), overrides |-> NoOverrides]

\* a regular transaction on the bank account, with every frequency, window and indexation
RegularInputs ==
    { Input(NoValue, <<Bank(g, w), Mortgage(0, Whole)>>,
            <<RegularDoc("Lohn", 1, 100, 2024, sm, ey, IF ey = NoValue THEN NoValue ELSE 1,
                         frequency, indexation)>>) :
        g \in GrowthRates, w \in AssetWindows, sm \in {11, 12}, ey \in {NoValue, 2025},
        frequency \in 0..MaxFrequency, indexation \in GrowthRates }

\* a double entry between the two accounts, one-time or regular
LinkedInputs ==
    { Input(NoValue, <<Bank(0, w1), AssetDoc(2, "Depot", "portfolio", 0, 1000, w2)>>,
            LinkedDocs(1, 2, "Umbuchung", 500, type, 2024, sm, NoValue, NoValue, frequency)
                \o extra) :
        w1 \in AssetWindows, w2 \in AssetWindows, type \in {"one_time", "regular"},
        sm \in {11, 12}, frequency \in {1, 2},
        extra \in {<<>>, <<OneTimeDoc("Bonus", 1, 300, 2024, 12)>>} }

\* mortgage interest paid by the bank account, with a principal change on the mortgage
MortgageInputs ==
    { Input(IF taxable THEN 2 ELSE NoValue, <<Bank(0, w1), Mortgage(g, w2)>>,
            <<OneTimeDoc("Amortisation", 2, 600, 2024, 12),
              InterestDoc("Zins", 1, 2, rf[1], rf[2], 2024, sm, taxable)>> \o second) :
        w1 \in AssetWindows, w2 \in AssetWindows, g \in GrowthRates,
        rf \in {<<12, 1>>, <<24, 2>>, <<12, MaxFrequency>>}, sm \in {11, 12},
        taxable \in BOOLEAN,
        second \in {<<>>, <<[InterestDoc("Zins 2", 2, 2, 12, 1, 2024, 11, FALSE) EXCEPT
                                      !.rate_schedule = <<[start |-> 202501, end |-> NoValue,
                                                           rate |-> 24]>>]>>} }

\* a taxable income with taxable mortgage interest; the tax account varies, and a second
\* interest transaction that is not taxable may carry the same name or another
TaxInputs ==
    { Input(tax_account_id,
            <<AssetDoc(1, "Konto", "bank_account", 0, CHF(1000), Whole),
              AssetDoc(2, "Hypothek", "mortgage", 0, CHF(-1200), Whole)>>,
            <<[OneTimeDoc("Einkommen", 1, income, 2024, 11) EXCEPT !.taxable = TRUE],
              InterestDoc("Zins", 1, 2, rate, 1, 2024, 11, TRUE)>> \o second) :
        tax_account_id \in {NoValue, 1, 2}, income \in {CHF(0), CHF(60000)},
        rate \in {12, 24},
        second \in {<<>>, <<InterestDoc("Zins", 1, 2, 12, 1, 2024, 12, FALSE)>>,
                    <<InterestDoc("Zins 2", 1, 2, 12, 1, 2024, 12, FALSE)>>} }

\* accounts that grow, without any transaction: an asset with or without an initial
\* balance and a liability, each with every active window
GrowthInputs ==
    { Input(NoValue,
            <<AssetDoc(1, "Konto", "bank_account", 4095, initial_balance, w1),
              Mortgage(4095, w2)>>,
            <<>>) :
        initial_balance \in {0, 1000}, w1 \in AssetWindows, w2 \in AssetWindows }

\* a tax setting that the scenario document does not have, and one stored as null
\* (create_scenario stores null for every setting it is not given)
Unset == [kind |-> "absent", value |-> NoValue]

Null == [kind |-> "null", value |-> NoValue]

\* the four tax settings: all given, all absent, all null, and one absent or null
TaxSettingsExplored ==
    LET given == [municipal_tax_factor |-> Setting(115), cantonal_tax_factor |-> Setting(98),
                  church_tax_factor |-> Setting(14), personal_tax_per_person |-> Setting(24)]
    IN {[key \in DOMAIN given |-> missing] : missing \in {Unset, Null}}
       \cup {[given EXCEPT ![key] = missing] : key \in DOMAIN given, missing \in {Unset, Null}}

\* a taxable income in scenarios whose tax settings are missing
SettingInputs ==
    { [Input(NoValue,
             <<AssetDoc(1, "Konto", "bank_account", 0, CHF(1000), Whole)>>,
             <<[OneTimeDoc("Einkommen", 1, CHF(60000), 2024, 11) EXCEPT !.taxable = TRUE]>>)
         EXCEPT !.scenario.municipal_tax_factor = settings.municipal_tax_factor,
                !.scenario.cantonal_tax_factor = settings.cantonal_tax_factor,
                !.scenario.church_tax_factor = settings.church_tax_factor,
                !.scenario.personal_tax_per_person = settings.personal_tax_per_person] :
        settings \in TaxSettingsExplored }

\* windows of a shock: none, both ends, an open end, an open start
Winter == [start_year |-> 2024, start_month |-> 12, end_year |-> 2025, end_month |-> 1]

ShockWindows == {Whole, Winter, LateStart, EarlyEnd}

ShockEntry(pct, w) ==
    [pct |-> pct, start_year |-> w.start_year, start_month |-> w.start_month,
     end_year |-> w.end_year, end_month |-> w.end_month]

\* the overrides explored: one kind of shock at a time, the legacy portfolio fields, the
\* income-tax override, income-tax shocks, an entry without pct, and all kinds together
OverridesExplored ==
    {[NoOverrides EXCEPT !.mortgage_rate_shocks = <<ShockEntry(Some(pct), w)>>] :
        pct \in {12, -12}, w \in ShockWindows}
    \cup {[NoOverrides EXCEPT !.portfolio_shocks = <<ShockEntry(Some(4095), w)>>] :
             w \in ShockWindows}
    \cup {[NoOverrides EXCEPT !.real_estate_shocks = <<ShockEntry(Some(4095), w)>>] :
             w \in ShockWindows}
    \cup {[NoOverrides EXCEPT !.inflation_shocks = <<ShockEntry(Some(1), w)>>] :
             w \in ShockWindows}
    \cup {[NoOverrides EXCEPT !.portfolio_growth_pct = Some(4095),
                              !.portfolio_start_year = w.start_year,
                              !.portfolio_start_month = w.start_month,
                              !.portfolio_end_year = w.end_year,
                              !.portfolio_end_month = w.end_month,
                              !.portfolio_shocks = listed] :
             w \in {Whole, Winter}, listed \in {<<>>, <<ShockEntry(None, Whole)>>}}
    \cup {[NoOverrides EXCEPT !.income_tax_override = Some(5)]}
    \cup {[NoOverrides EXCEPT !.income_tax_shocks = <<ShockEntry(pct, w)>>] :
             pct \in {None, Some(5)}, w \in {Whole, Winter}}
    \cup {[NoOverrides EXCEPT !.income_tax_override = Some(5),
                              !.portfolio_shocks = <<ShockEntry(Some(4095), Winter)>>,
                              !.real_estate_shocks = <<ShockEntry(Some(4095), LateStart)>>,
                              !.mortgage_rate_shocks = <<ShockEntry(Some(12), EarlyEnd)>>,
                              !.inflation_shocks = <<ShockEntry(Some(1), Winter)>>]}

\* four kinds of assets with a salary and mortgage interest, run with overrides
ShockInputs ==
    { [Input(NoValue,
             <<Bank(0, Whole), AssetDoc(2, "Depot", "portfolio", 0, 1000, Whole),
               AssetDoc(3, "Haus", "real_estate", 0, 2000, Whole),
               AssetDoc(4, "Hypothek", "mortgage", 0, -1200, Whole)>>,
             <<RegularDoc("Lohn", 1, 100, 2024, 11, NoValue, NoValue, 1, 0),
               InterestDoc("Zins", 1, 4, rate, frequency, 2024, 11, FALSE)>>)
         EXCEPT !.overrides = ov] :
        rate \in {12, 24}, frequency \in {1, 2}, ov \in OverridesExplored }

\* an indexed salary and a bonus under two inflation shocks, with every pair of windows
InflationInputs ==
    { [Input(NoValue, <<Bank(0, Whole)>>,
             <<RegularDoc("Lohn", 1, 100, 2024, 11, NoValue, NoValue, frequency, indexation),
               OneTimeDoc("Bonus", 1, 300, 2024, 12)>>)
         EXCEPT !.overrides =
                    [NoOverrides EXCEPT !.inflation_shocks =
                         <<ShockEntry(Some(1), w1), ShockEntry(Some(2), w2)>>]] :
        frequency \in {1, 2}, indexation \in GrowthRates, w1 \in ShockWindows,
        w2 \in ShockWindows }

\* the rows of the federal table whose threshold + 100 is an income within the bound
TariffRows ==
    {i \in 1..Len(DEFAULT_FEDERAL_TABLE) : DEFAULT_FEDERAL_TABLE[i].income + 100 <= MaxIncome}

\* a taxable income at a threshold of the federal table or 100 above it, next to mortgage
\* interest that is not taxable
TariffInputs ==
    { Input(NoValue,
            <<AssetDoc(1, "Konto", "bank_account", 0, CHF(1000), Whole),
              AssetDoc(2, "Hypothek", "mortgage", 0, CHF(-1200), Whole)>>,
            <<[OneTimeDoc("Einkommen", 1, CHF(DEFAULT_FEDERAL_TABLE[i].income + above),
                          2024, 11) EXCEPT !.taxable = TRUE],
              InterestDoc("Zins", 1, 2, 12, 1, 2024, 11, FALSE)>>) :
        i \in TariffRows, above \in {0, 100} }

\* two taxable amounts, one in each year of the scenario: the income of 2024 is 100 below or
\* at a threshold of the federal table, that of 2025 is 100 higher; the booked amount is 1
MonotoneInputs ==
    { Input(NoValue,
            <<AssetDoc(1, "Konto", "bank_account", 0, CHF(1000), Whole),
              AssetDoc(2, "Hypothek", "mortgage", 0, CHF(-1200), Whole)>>,
            <<[OneTimeDoc("Einkommen", 1, CHF(1), 2024, 11) EXCEPT
                   !.taxable = TRUE,
                   !.taxable_amount = Some(CHF(DEFAULT_FEDERAL_TABLE[i].income + above - 100))],
              [OneTimeDoc("Einkommen", 1, CHF(1), 2025, 1) EXCEPT
                   !.taxable = TRUE,
                   !.taxable_amount = Some(CHF(DEFAULT_FEDERAL_TABLE[i].income + above))],
              InterestDoc("Zins", 1, 2, 12, 1, 2024, 11, FALSE)>>) :
        i \in TariffRows, above \in {0, 100} }

\* a taxable salary and a taxable bonus: the salary starts before, with or after the scenario
\* and ends inside it, after it or has no end date; the bonus falls inside or outside the
\* scenario and is booked on the bank account or on an asset of another scenario; the bank
\* account is active throughout or from 2025-01
OccurrenceInputs ==
    { Input(NoValue,
            <<AssetDoc(1, "Konto", "bank_account", 0, CHF(1000), w),
              AssetDoc(2, "Hypothek", "mortgage", 0, CHF(-1200), Whole)>>,
            <<[RegularDoc("Lohn", 1, CHF(100), start.year, start.month, end.year, end.month,
                          frequency, 0) EXCEPT !.taxable = TRUE],
              [OneTimeDoc("Bonus", bonus_asset, CHF(300), bonus.year, bonus.month)
                   EXCEPT !.taxable = TRUE],
              InterestDoc("Zins", 1, 2, 12, 1, 2024, 11, FALSE)>>) :
        w \in {Whole, LateStart},
        start \in {Date(2024, 9), Date(2024, 11), Date(2025, 1)},
        end \in {Date(NoValue, NoValue), Date(2024, 12), Date(2025, 2), Date(2025, 6)},
        frequency \in {1, 2},
        bonus \in {Date(2024, 12), Date(2025, 6)},
        bonus_asset \in {1, 9} }

Inputs == RegularInputs \cup LinkedInputs \cup MortgageInputs \cup TaxInputs \cup ShockInputs
          \cup GrowthInputs \cup SettingInputs \cup InflationInputs

\* the run starts with the documents the repository returned
Start(input) ==
    /\ stored = [assets |-> input.assets, transactions |-> input.transactions,
                 inserted |-> Len(input.transactions)]
    /\ scenario = input.scenario
    /\ assets = input.assets
    /\ transactions = input.transactions
    /\ overrides = input.overrides
    /\ repo_docs = [scenario |-> input.scenario, assets |-> input.assets,
                    transactions |-> input.transactions]
    /\ balance = [i \in 1..Len(input.assets) |-> input.assets[i].initial_balance]
    /\ account_attrs = [i \in 1..Len(input.assets) |->
                            [annual_growth_rate |-> input.assets[i].annual_growth_rate,
                             current_year |-> NoValue, current_month |-> NoValue]]
    /\ account_initialized = [i \in 1..Len(input.assets) |-> FALSE]
    /\ active_accounts = <<>>
    /\ current_date = FirstMonth
    /\ monthly = MonthlyZero
    /\ details = DetailsZero
    /\ account_balance_histories = [i \in 1..Len(input.assets) |-> <<>>]
    /\ total_wealth_history = <<>>
    /\ cash_flow_history = <<>>
    /\ tax_rows = <<>>
    /\ tax_transactions = <<>>
    /\ same_vals = FALSE
    /\ iteration = 1
    /\ pc = "load"
    /\ mi = 1
    /\ applied = <<>>
    /\ earlier = <<>>

Init == \E input \in Inputs : Start(input)

Next ==
    \/ ApplyOverrides
    \/ CompoundAccounts
    \/ ApplyStandardTransactions
    \/ ApplyMortgageInterest
    \/ Snapshot
    \/ CollectTaxes

Spec == Init /\ [][Next]_vars

\* runs whose taxable income of 2024 is a threshold of the federal table, or 100 above one
TariffInit == \E input \in TariffInputs : Start(input)

TariffSpec == TariffInit /\ [][Next]_vars

\* runs whose taxable incomes of 2024 and 2025 lie 100 apart, around a threshold
MonotoneInit == \E input \in MonotoneInputs : Start(input)

MonotoneSpec == MonotoneInit /\ [][Next]_vars

\* runs with taxable transactions whose windows differ from the scenario's
OccurrenceInit == \E input \in OccurrenceInputs : Start(input)

OccurrenceSpec == OccurrenceInit /\ [][Next]_vars

\* ---------------------------------------------------------------- repository
\* the variables of a simulation run, which the repository operations leave alone
run_vars == <<scenario, assets, transactions, overrides, repo_docs, balance,
              account_attrs, account_initialized, active_accounts, current_date, monthly, details,
              account_balance_histories, total_wealth_history, cash_flow_history, tax_rows,
              tax_transactions, same_vals, iteration, pc, mi, applied, earlier>>

\* the most transaction documents ever inserted into the collection
MaxInserted == 5

\* find_one({"_id": transaction_id}): the indices of the stored transactions with the id
FindById(transaction_id) ==
    {k \in 1..Len(stored.transactions) : stored.transactions[k].id = transaction_id}

\* add_linked_transactions: both legs are inserted with fresh ids and one fresh link id
AddLinkedTransactions(debit_asset_id, credit_asset_id, name, amount, type, sy, sm, ey, em, freq) ==
    /\ stored.inserted + 2 <= MaxInserted
    /\ LET docs == LinkedDocs(debit_asset_id, credit_asset_id, name, amount, type, sy, sm,
                              ey, em, freq)
           inserted == [k \in 1..2 |-> [docs[k] EXCEPT !.id = stored.inserted + k,
                                                      !.link_id = stored.inserted + 1]]
       IN stored' = [stored EXCEPT !.transactions = @ \o inserted, !.inserted = @ + 2]
    /\ UNCHANGED run_vars

\* the keys of an updates dict that are explored; None: the key is not in the dict
NoUpdates == [amount |-> None, start_month |-> None, frequency |-> None]

\* $set of converted_updates on one document: a new amount takes the sign of the entry
Updated(doc, updates) ==
    LET amount == IF updates.amount = None THEN doc.amount
                  ELSE IF doc.entry = "credit" THEN -Abs(updates.amount[1])
                  ELSE IF doc.entry = "debit" THEN Abs(updates.amount[1])
                  ELSE updates.amount[1]
    IN [doc EXCEPT !.amount = amount,
                   !.start_month = IF updates.start_month # None THEN updates.start_month[1] ELSE @,
                   !.frequency = IF updates.frequency # None THEN updates.frequency[1] ELSE @]

\* update_transaction: the one document with the id is updated
UpdateTransaction(transaction_id, updates) ==
    /\ FindById(transaction_id) # {}
    /\ stored' = [stored EXCEPT !.transactions =
                     [k \in 1..Len(@) |-> IF k \in FindById(transaction_id)
                                          THEN Updated(@[k], updates) ELSE @[k]]]
    /\ UNCHANGED run_vars

\* delete_transaction: a document with a link id goes with every document of that link id
DeleteTransaction(transaction_id) ==
    /\ FindById(transaction_id) # {}
    /\ LET tx == stored.transactions[CHOOSE k \in FindById(transaction_id) : TRUE]
       IN stored' = [stored EXCEPT !.transactions =
                        IF tx.link_id # NoValue
                        THEN SelectSeq(@, LAMBDA doc : doc.link_id # tx.link_id)
                        ELSE SelectSeq(@, LAMBDA doc : doc.id # transaction_id)]
    /\ UNCHANGED run_vars

\* delete_asset: the asset, every transaction that names it, and the partners of its legs
DeleteAsset(asset_id) ==
    /\ \E k \in 1..Len(stored.assets) : stored.assets[k].id = asset_id
    /\ LET link_ids == {stored.transactions[k].link_id :
                           k \in {j \in 1..Len(stored.transactions) :
                                     /\ stored.transactions[j].asset_id = asset_id
                                     /\ stored.transactions[j].link_id # NoValue}}
           named(doc) == \/ doc.asset_id = asset_id
                         \/ doc.counter_asset_id = asset_id
                         \/ doc.mortgage_asset_id = asset_id
       IN stored' = [stored EXCEPT
                        !.assets = SelectSeq(@, LAMBDA asset : asset.id # asset_id),
                        !.transactions =
                            SelectSeq(@, LAMBDA doc : ~named(doc) /\ doc.link_id \notin link_ids)]
    /\ UNCHANGED run_vars

\* three assets and one transaction without a link id; no run has started
RepoInit ==
    Start(Input(NoValue,
                <<Bank(0, Whole), AssetDoc(2, "Depot", "portfolio", 0, 1000, Whole),
                  AssetDoc(3, "Hypothek", "mortgage", 0, -1200, Whole)>>,
                <<InterestDoc("Zins", 1, 3, 12, 1, 2024, 11, FALSE)>>))

\* the updates explored: a new amount, a new schedule, and both a new amount of the other
\* sign and a new start
UpdatesExplored ==
    {[NoUpdates EXCEPT !.amount = Some(-700)],
     [NoUpdates EXCEPT !.start_month = Some(12), !.frequency = Some(2)],
     [NoUpdates EXCEPT !.amount = Some(700), !.start_month = Some(12)]}

RepoNext ==
    \/ \E debit \in 1..2 :
           AddLinkedTransactions(debit, debit + 1, "Umbuchung", 500, "regular", 2024, 11,
                                 NoValue, NoValue, 1)
    \/ \E transaction_id \in 1..MaxInserted, updates \in UpdatesExplored :
           UpdateTransaction(transaction_id, updates)
    \/ \E transaction_id \in 1..MaxInserted : DeleteTransaction(transaction_id)
    \/ \E asset_id \in 1..3 : DeleteAsset(asset_id)

RepoSpec == RepoInit /\ [][RepoNext]_vars

\* ---------------------------------------------------------------- repeated calls
\* calls of simulate_account_balances_and_total_wealth on the same Account objects that are
\* explored
MaxCalls == 2

\* what a call of the simulation returns
Histories ==
    [account_balance_histories |-> account_balance_histories,
     total_wealth_history |-> total_wealth_history,
     cash_flow_history |-> cash_flow_history]

\* simulate_account_balances_and_total_wealth is called again with the same accounts,
\* transactions and window: the head of the function, up to the month loop
SimulateAgain ==
    /\ pc = "collect"
    /\ iteration < MaxCalls
    /\ earlier' = Histories
    /\ iteration' = iteration + 1
    /\ balance' = [i \in AccountIds |-> Acct(i).initial_balance]
    /\ account_initialized' = InitializedAtStart(account_initialized)
    /\ account_balance_histories' = [i \in AccountIds |-> <<>>]
    /\ total_wealth_history' = <<>>
    /\ cash_flow_history' = <<>>
    /\ current_date' = ScenarioStart
    /\ applied' = <<>>
    /\ pc' = IF InScenarioWindow(ScenarioStart) THEN "growth" ELSE "collect"
    /\ UNCHANGED <<stored, scenario, assets, transactions, overrides, repo_docs,
                   account_attrs, active_accounts, monthly, details, mi, tax_rows,
                   tax_transactions, same_vals>>

RepeatNext ==
    \/ ApplyOverrides
    \/ CompoundAccounts
    \/ ApplyStandardTransactions
    \/ ApplyMortgageInterest
    \/ Snapshot
    \/ SimulateAgain

RepeatSpec == Init /\ [][RepeatNext]_vars

\* ---------------------------------------------------------------- properties
\* the snapshots recorded so far in the pass
Snapshots == 1..Len(total_wealth_history)

SnapshotDate(k) == total_wealth_history[k].date

ActiveAt(i, d) == IsActive(Acct(i), d.month, d.year)

\* the standard transactions of account i, as the month loop receives them
TransactionsOf(i) == AccountTransactions(AllTransactions, i, ScenarioDefaults(scenario))

\* the mortgage-interest lines among the expense details of snapshot k
InterestLines(k) ==
    {e \in 1..Len(cash_flow_history[k].expense_details) :
        cash_flow_history[k].expense_details[e].tx_type = "mortgage_interest"}

\* C1: after every simulated month, the total wealth recorded for the month equals the sum
\* of the balances recorded for that month over all accounts, active and inactive.
C1_TotalIsSumOfBalances ==
    \A k \in Snapshots :
        /\ \A i \in AccountIds :
               /\ Len(account_balance_histories[i]) = Len(total_wealth_history)
               /\ account_balance_histories[i][k].date = SnapshotDate(k)
        /\ total_wealth_history[k].value =
               SumSeq([i \in AccountIds |-> account_balance_histories[i][k].value])

\* a finished run with tax charges booked, a month with an inactive account and a non-zero
\* total, a month with mortgage interest paid, and a negative recorded balance
C1_Witness ==
    /\ pc = "done"
    /\ tax_transactions # <<>>
    /\ \E k \in Snapshots :
           /\ \E i \in AccountIds : ~ActiveAt(i, SnapshotDate(k))
           /\ total_wealth_history[k].value # 0
    /\ \E k \in Snapshots :
           /\ InterestLines(k) # {}
           /\ \E i \in AccountIds : account_balance_histories[i][k].value < 0

\* C2: in every month in which an account is outside its active window, the balance recorded
\* for it is 0, and no step of the month leaves it with another balance.
C2_InactiveBalanceIsZero ==
    /\ \A i \in AccountIds : \A k \in 1..Len(account_balance_histories[i]) :
           ~ActiveAt(i, account_balance_histories[i][k].date)
               => account_balance_histories[i][k].value = 0
    /\ pc \in {"standard", "interest"}
           => \A i \in AccountIds : ~ActiveAt(i, current_date) => balance[i] = 0

\* a finished run in which the configured tax account was inactive in a month for which it
\* had a standard transaction and a tax charge due, and its recorded balance is 0
C2_Witness ==
    /\ pc = "done"
    /\ \E i \in AccountIds : \E k \in Snapshots :
           /\ ~ActiveAt(i, SnapshotDate(k))
           /\ TaxAccount = i
           /\ \E t \in 1..Len(tax_transactions) :
                  /\ tax_transactions[t].asset_id = i
                  /\ tax_transactions[t].start_year = SnapshotDate(k).year
                  /\ tax_transactions[t].start_month = SnapshotDate(k).month
           /\ \E t \in 1..Len(transactions) :
                  /\ transactions[t].asset_id = i
                  /\ transactions[t].type = "one_time"
                  /\ transactions[t].start_year = SnapshotDate(k).year
                  /\ transactions[t].start_month = SnapshotDate(k).month
           /\ account_balance_histories[i][k].value = 0
           /\ \E j \in Snapshots : account_balance_histories[i][j].value # 0

\* account i was active in an earlier month of the pass
ActiveBefore(i) == \E k \in Snapshots : ActiveAt(i, SnapshotDate(k))

\* the balance the compounding of the current month starts from: the initial balance in the
\* first active month, the balance of the last snapshot afterwards
BalanceBeforeGrowth(i) ==
    IF ActiveBefore(i)
    THEN account_balance_histories[i][Len(account_balance_histories[i])].value
    ELSE assets[i].initial_balance

\* the balance of account i after the compounding of the current month
GrownBalance(i) ==
    IF ActiveAt(i, current_date)
    THEN ApplyGrowth(Acct(i), BalanceBeforeGrowth(i), current_date.month, current_date.year)
    ELSE 0

\* the sum of the amounts the log books on account i in month d
RECURSIVE AppliedSum(_, _, _)
AppliedSum(log, i, d) ==
    IF log = <<>> THEN 0
    ELSE (IF Head(log).account = i /\ Head(log).date = d THEN Head(log).amount ELSE 0)
             + AppliedSum(Tail(log), i, d)

\* the growth lines of the current month that carry the name of account i
GrowthLines(i) ==
    {e \in 1..Len(details.growth_details) : details.growth_details[e].name = Acct(i).name}

\* C3: in every month an active account is compounded exactly once, from initial_balance in
\* its first active month, and before any standard transaction, mortgage interest or tax
\* effect of the month; an inactive account gets no growth.
C3_GrowthOnceBeforeTransactions ==
    /\ pc = "standard" =>
           /\ \A i \in AccountIds : balance[i] = GrownBalance(i)
           /\ \A e \in 1..Len(applied) : applied[e].date # current_date
           /\ details.income_details = <<>>
           /\ details.expense_details = <<>>
           /\ details.tax_details = <<>>
    /\ pc \in {"standard", "interest"} =>
           /\ monthly.growth =
                  SumSeq([i \in AccountIds |->
                             IF ActiveAt(i, current_date)
                             THEN GrownBalance(i) - BalanceBeforeGrowth(i) ELSE 0])
           /\ \A i \in AccountIds :
                  /\ Cardinality(GrowthLines(i)) <= 1
                  /\ ~ActiveAt(i, current_date) => GrowthLines(i) = {}
                  /\ \A e \in GrowthLines(i) :
                         details.growth_details[e].amount = GrownBalance(i) - BalanceBeforeGrowth(i)
    /\ (pc = "interest" /\ mi = 1) =>
           \A i \in AccountIds :
               balance[i] = GrownBalance(i) + AppliedSum(applied, i, current_date)

\* the growth step has run for a month in which an account with a non-zero growth rate is
\* active for the first time, after months in which it was inactive and transactions ran
C3_Witness ==
    /\ pc = "standard"
    /\ applied # <<>>
    /\ \E i \in AccountIds :
           /\ Snapshots # {}
           /\ ActiveAt(i, current_date)
           /\ ~ActiveBefore(i)
           /\ assets[i].initial_balance # 0
           /\ balance[i] = 2 * assets[i].initial_balance
    /\ \E i \in AccountIds : ActiveBefore(i) /\ ActiveAt(i, current_date)

\* the interest transaction is due in the current month and both its accounts are active
InterestCharged(itx) ==
    /\ InterestIsApplicable(itx, current_date.month, current_date.year)
    /\ ActiveAt(itx.mortgage_account, current_date)
    /\ ActiveAt(itx.pay_from_account, current_date)

\* the mortgage interest already charged to account i in the current month
InterestPaidBy(i) ==
    SumSeq([e \in 1..Len(details.expense_details) |->
               IF /\ details.expense_details[e].tx_type = "mortgage_interest"
                  /\ details.expense_details[e].account = Acct(i).name
               THEN details.expense_details[e].amount ELSE 0])

\* the number of standard transactions due in the current month on active accounts
DueCount ==
    SumSeq([i \in AccountIds |->
               IF ActiveAt(i, current_date)
               THEN Cardinality({t \in 1..Len(TransactionsOf(i)) :
                        IsApplicable(TransactionsOf(i)[t], current_date.month, current_date.year)})
               ELSE 0])

\* the number of standard transactions the log holds for the current month
AppliedCount == Cardinality({e \in 1..Len(applied) : applied[e].date = current_date})

\* C4: the amount of every mortgage-interest transaction charged in a month is computed from
\* the mortgage account's balance after the month's compounding and after all standard
\* transactions of all accounts of the month (and the interest charged to it before).
C4_InterestAfterStandardTransactions ==
    [][(pc = "interest" /\ mi <= Len(MortTxs) /\ InterestCharged(MortTxs[mi])) =>
          LET itx == MortTxs[mi]
              mortgage == itx.mortgage_account
              B == GrownBalance(mortgage) + AppliedSum(applied, mortgage, current_date)
                       + InterestPaidBy(mortgage)
              lines == details'.expense_details
          IN /\ AppliedCount = DueCount
             /\ Len(lines) = Len(details.expense_details) + 1
             /\ lines[Len(lines)].name = itx.name
             /\ lines[Len(lines)].amount =
                    -PeriodicInterest(itx, B, current_date.month, current_date.year)]_vars

\* interest has just been charged on a mortgage that grew and had a principal change booked
\* in the same month
C4_Witness ==
    /\ pc = "interest"
    /\ mi > 1
    /\ InterestCharged(MortTxs[mi - 1])
    /\ LET mortgage == MortTxs[mi - 1].mortgage_account
           lines == details.expense_details
       IN /\ AppliedSum(applied, mortgage, current_date) # 0
          /\ GrownBalance(mortgage) # BalanceBeforeGrowth(mortgage)
          /\ lines # <<>>
          /\ lines[Len(lines)].tx_type = "mortgage_interest"
          /\ MortTxs[mi - 1].pay_from_account # mortgage
          /\ lines[Len(lines)].amount =
                 -PeriodicInterest(MortTxs[mi - 1], balance[mortgage],
                                   current_date.month, current_date.year)
          /\ lines[Len(lines)].amount # 0

\* the stored documents that are legs of a double entry
Legs ==
    {t \in 1..Len(transactions) :
        transactions[t].double_entry \/ transactions[t].counter_asset_id # NoValue}

\* the legs of linked pairs (add_linked_transactions gives both legs one link_id)
LinkedLegs == {t \in Legs : transactions[t].link_id # NoValue}

\* the months of the pass in which the log books something
AppliedDates == {applied[e].date : e \in 1..Len(applied)}

\* the entries of the log for document t in month d
AppliedEntries(t, d) ==
    {e \in 1..Len(applied) : applied[e].id = transactions[t].id /\ applied[e].date = d}

\* C5: for any linked double-entry pair and any active windows of its two accounts, in every
\* month both legs are applied or neither is, so the amounts the pair applies sum to 0 in
\* every month and the pair leaves total wealth unchanged.
C5_DoubleEntryNeutral ==
    \A d \in AppliedDates :
        /\ \A t \in LinkedLegs : \A u \in LinkedLegs :
               transactions[t].link_id = transactions[u].link_id
                   => (AppliedEntries(t, d) = {} <=> AppliedEntries(u, d) = {})
        /\ SumSeq([e \in 1..Len(applied) |->
                      IF /\ applied[e].date = d
                         /\ \E t \in LinkedLegs : applied[e].id = transactions[t].id
                      THEN applied[e].amount ELSE 0]) = 0

\* the instance the month loop receives for the stored document t
InstanceOf(t) == CreateTransactionInstance(transactions[t], ScenarioDefaults(scenario))

\* the lines of the income and expense details of snapshot k
CashFlowLines(k) ==
    cash_flow_history[k].income_details \o cash_flow_history[k].expense_details

\* no leg among the cash-flow lines of any snapshot, and the totals are the sums of the lines
LegsOutsideCashFlow ==
    \A k \in Snapshots :
        LET cf == cash_flow_history[k]
        IN /\ \A e \in 1..Len(CashFlowLines(k)) : \A t \in Legs :
                  CashFlowLines(k)[e].transaction_id # transactions[t].id
           /\ cf.income = SumSeq([e \in 1..Len(cf.income_details) |-> cf.income_details[e].amount])
           /\ cf.expenses =
                  SumSeq([e \in 1..Len(cf.expense_details) |-> cf.expense_details[e].amount])
           /\ cf.net = cf.income + cf.expenses + cf.taxes

\* the leg t is booked in the month of snapshot k, once and with its amount
LegBooked(t, k) ==
    LET d == SnapshotDate(k)
    IN /\ Cardinality(AppliedEntries(t, d)) = 1
       /\ \A e \in AppliedEntries(t, d) :
              /\ applied[e].account = transactions[t].asset_id
              /\ applied[e].amount = AmountWhenApplicable(InstanceOf(t), d.month, d.year)

\* the leg t is due in the month of snapshot k
LegDue(t, k) == IsApplicable(InstanceOf(t), SnapshotDate(k).month, SnapshotDate(k).year)

\* C6 as stated: a leg of a double entry never appears in income_details or expense_details
\* and never changes the income, expenses or net of a month, while its amount is applied to
\* its account's balance in every month in which it is applicable.
C6_LegAppliedWheneverApplicable ==
    /\ LegsOutsideCashFlow
    /\ \A k \in Snapshots : \A t \in Legs : LegDue(t, k) => LegBooked(t, k)

\* C6 amended: a leg of a double entry never appears in income_details or expense_details and
\* never changes the income, expenses or net of a month, while its amount is applied to its
\* account's balance in every month in which it is applicable and its account is active.
C6_LegAppliedWhenApplicableAndActive ==
    /\ LegsOutsideCashFlow
    /\ \A k \in Snapshots : \A t \in Legs :
           IF LegDue(t, k) /\ ActiveAt(transactions[t].asset_id, SnapshotDate(k))
           THEN LegBooked(t, k)
           ELSE AppliedEntries(t, SnapshotDate(k)) = {}

\* a finished run in which a leg was booked in a month whose cash flow has an income line of
\* another transaction of the same account, and the recorded balance moved with the leg
C6_Witness ==
    /\ pc = "done"
    /\ \E k \in Snapshots : \E t \in Legs :
           LET a == transactions[t].asset_id
           IN /\ LegDue(t, k)
              /\ ActiveAt(a, SnapshotDate(k))
              /\ LegBooked(t, k)
              /\ cash_flow_history[k].income_details # <<>>
              /\ cash_flow_history[k].income = 300
              /\ k > 1
              /\ account_balance_histories[a][k].value
                     = account_balance_histories[a][k - 1].value
                           + AppliedSum(applied, a, SnapshotDate(k))

\* the months of the scenario window
ScenarioMonths == {AddMonths(ScenarioStart, n) : n \in 0..(Horizon - 1)}

\* the stored regular transactions booked on an account that is active throughout
SteadyRegulars ==
    {t \in 1..Len(transactions) :
        /\ transactions[t].type = "regular"
        /\ transactions[t].asset_id \in AccountIds
        /\ \A d \in ScenarioMonths : ActiveAt(transactions[t].asset_id, d)}

\* frequency k, start and window_months of the stored regular transaction t
FrequencyOf(t) == IF transactions[t].frequency >= 1 THEN transactions[t].frequency ELSE 1

StartOf(t) == Date(InstanceOf(t).year, InstanceOf(t).month)

WindowMonths(t) ==
    MonthsBetween(InstanceOf(t).year, InstanceOf(t).month,
                  InstanceOf(t).end_year, InstanceOf(t).end_month)

\* the window of t lies inside the scenario window
InsideScenario(t) ==
    /\ StartOf(t) \in ScenarioMonths
    /\ Date(InstanceOf(t).end_year, InstanceOf(t).end_month) \in ScenarioMonths

\* the months start + i*k, i = 0..floor(window_months/k)
DueMonths(t) ==
    {AddMonths(StartOf(t), n * FrequencyOf(t)) : n \in 0..(WindowMonths(t) \div FrequencyOf(t))}

\* the entries of the log for document t
EntriesOf(t) == {e \in 1..Len(applied) : applied[e].id = transactions[t].id}

\* the pass has simulated its last month
PassComplete == pc \in {"collect", "done"}

\* C7: a regular transaction with frequency k and a window inside the scenario window, booked
\* on an account that is active throughout, is applied exactly floor(window_months/k)+1 times
\* in a simulation: in the months start + i*k, i = 0..floor(window_months/k), and in no other.
C7_RegularApplications ==
    PassComplete =>
        \A t \in SteadyRegulars :
            InsideScenario(t) =>
                /\ {applied[e].date : e \in EntriesOf(t)} = DueMonths(t)
                /\ Cardinality(EntriesOf(t)) = WindowMonths(t) \div FrequencyOf(t) + 1

\* a finished pass with a regular transaction of frequency 2 or more that was applied more
\* than once and skipped a month of its window
C7_Witness ==
    /\ PassComplete
    /\ \E t \in SteadyRegulars :
           /\ InsideScenario(t)
           /\ FrequencyOf(t) >= 2
           /\ Cardinality(EntriesOf(t)) = WindowMonths(t) \div FrequencyOf(t) + 1
           /\ Cardinality(EntriesOf(t)) >= 2
           /\ Cardinality(EntriesOf(t)) < WindowMonths(t) + 1

\* C8: the amount of the n-th application (n = 0 for the first) of a regular transaction
\* with base amount base, annual indexation rate annual and frequency k is
\* base * (1 + annual)^(n*k/12), for every k >= 1 and every n.
C8_IndexationIdentity ==
    PassComplete =>
        \A t \in SteadyRegulars : \A e \in EntriesOf(t) :
            LET months == MonthsBetween(StartOf(t).year, StartOf(t).month,
                                        applied[e].date.year, applied[e].date.month)
            IN applied[e].amount =
                   transactions[t].amount
                       * Pow(1 + MonthlyRate(transactions[t].annual_growth_rate), months)

\* the effective annual rate of an interest transaction in the current month
EffectiveRate(itx) ==
    ScheduledRate(itx.rate_schedule, MonthKey(current_date.year, current_date.month),
                  itx.annual_interest_rate)

\* C9: when a mortgage-interest transaction with effective annual rate r and frequency f
\* applies in a month, the payer's balance is reduced by exactly |B| * r * f/12, B the
\* mortgage balance at that step, and the same negative amount is recorded as an expense
\* detail on the payer; when one of the two accounts is inactive, or the transaction is not
\* due, nothing is charged or recorded.
C9_InterestCharge ==
    [][(pc = "interest" /\ mi <= Len(MortTxs)) =>
          LET itx == MortTxs[mi]
              payer == itx.pay_from_account
              charge == Abs(balance[itx.mortgage_account])
                            * ((EffectiveRate(itx) * itx.frequency) \div 12)
              lines == details'.expense_details
          IN IF InterestCharged(itx)
             THEN /\ balance' = [balance EXCEPT ![payer] = @ - charge]
                  /\ monthly'.expense = monthly.expense - charge
                  /\ Len(lines) = Len(details.expense_details) + 1
                  /\ lines[Len(lines)].amount = -charge
                  /\ lines[Len(lines)].account = Acct(payer).name
                  /\ lines[Len(lines)].name = itx.name
             ELSE UNCHANGED <<balance, monthly, details>>]_vars

\* interest with a frequency of 2 or more has just been charged, in a later period than its
\* first, on a mortgage with a non-zero balance
C9_Witness ==
    /\ pc = "interest"
    /\ mi > 1
    /\ InterestCharged(MortTxs[mi - 1])
    /\ MortTxs[mi - 1].frequency >= 2
    /\ MonthsBetween(MortTxs[mi - 1].year, MortTxs[mi - 1].month,
                     current_date.year, current_date.month) > 0
    /\ details.expense_details # <<>>
    /\ details.expense_details[Len(details.expense_details)].amount < 0
    /\ details.expense_details[Len(details.expense_details)].name = MortTxs[mi - 1].name

\* the tax iteration has ended: with its result, or with the exception of the tax formula
Terminated == pc \in {"done", "error"}

\* the steps of one month and of one pass (the interest transactions are the same in every
\* pass: the tax charges added between passes are one-time transactions)
StepsPerMonth == 3 + Len(MortTxs)

StepsPerPass ==
    StepsPerMonth * (MonthsBetween(scenario.start_year, scenario.start_month,
                                   scenario.end_year, scenario.end_month) + 1) + 1

\* the steps the current pass still has to take
StepsLeftInPass ==
    IF pc = "collect" THEN 1
    ELSE StepsPerMonth * MonthsBetween(current_date.year, current_date.month,
                                       scenario.end_year, scenario.end_month)
         + (IF pc = "growth" THEN StepsPerMonth
            ELSE IF pc = "standard" THEN StepsPerMonth - 1
            ELSE Len(MortTxs) - mi + 2)
         + 1

\* an upper bound of the steps the tax iteration still has to take
Rank ==
    IF Terminated THEN 0
    ELSE IF pc = "load" THEN StepsPerPass * max_iterations + 1
    ELSE StepsPerPass * (max_iterations - iteration) + StepsLeftInPass

\* C10: the tax iteration always terminates and performs at most 10 simulation passes:
\* the pass counter never exceeds max_iterations, every step lowers a rank that is never
\* negative, and the only positions without a further step are the terminated ones.
C10_TaxIterationTerminates ==
    /\ [](/\ iteration \in 1..max_iterations
          /\ Rank >= 0
          /\ pc \in {"load", "growth", "standard", "interest", "collect", "done", "error"}
          /\ (pc = "interest" => mi \in 1..(Len(MortTxs) + 1)))
    /\ [][Rank' < Rank]_vars

\* the iteration has ended after using all of its passes
C10_Witness == pc = "done" /\ iteration = max_iterations /\ tax_transactions # <<>>

\* the largest change of a year's totalAll between the previous round and the returned rows
\* is within the tolerance of 0.01
WithinTolerance(new_rows, prev_rows) ==
    /\ Len(new_rows) = Len(prev_rows)
    /\ \A k \in 1..Len(new_rows) :
           /\ new_rows[k].year = prev_rows[k].year
           /\ Abs(new_rows[k].totalAll - prev_rows[k].totalAll) <= Tolerance

\* C11 as stated: when run_scenario_simulation returns, every year's totalAll of the
\* returned rows is within 0.01 of the previous round's, also when the cap of 10 rounds
\* stopped the iteration.
C11_FinalRowsWithinTolerance ==
    [][pc' = "done" => WithinTolerance(tax_rows', tax_rows)]_vars

\* C11 amended: when the convergence test stopped the iteration, every year's totalAll of
\* the returned rows is within 0.01 of the previous round's.
C11_ConvergedRowsWithinTolerance ==
    [][pc' = "done" /\ same_vals' => WithinTolerance(tax_rows', tax_rows)]_vars

\* the convergence test has stopped the iteration after charges were injected
C11_Witness ==
    /\ pc = "done"
    /\ same_vals
    /\ iteration > 1
    /\ tax_transactions # <<>>
    /\ \E k \in 1..Len(tax_rows) : tax_rows[k].totalAll # 0

\* C12: a run with any overrides leaves the scenario, asset and transaction documents the
\* repository returned unchanged: no field is modified and no growth_schedule,
\* rate_schedule or inflation_schedule entry is added to them.
C12_RepositoryDocumentsUnchanged ==
    [][repo_docs' = repo_docs]_vars

\* overrides of every kind have been applied: the documents the run works on carry the
\* override and the schedules, the repository's do not
C12_Witness ==
    /\ pc = "done"
    /\ overrides.income_tax_override # None
    /\ scenario.income_tax_rate # repo_docs.scenario.income_tax_rate
    /\ \E k \in 1..Len(assets) :
           assets[k].growth_schedule # <<>> /\ repo_docs.assets[k].growth_schedule = <<>>
    /\ \E k \in 1..Len(transactions) :
           transactions[k].rate_schedule # <<>> /\ repo_docs.transactions[k].rate_schedule = <<>>
    /\ \E k \in 1..Len(transactions) :
           /\ transactions[k].inflation_schedule # <<>>
           /\ repo_docs.transactions[k].inflation_schedule = <<>>

\* the rows of the per-year result whose net income is x currency units
RowsWithNet(x) == {k \in 1..Len(tax_rows) : tax_rows[k].net = CHF(x)}

\* per100 is used as stored: not negative, not above 20
PlainPer100(row) == row.per100 >= 0 /\ row.per100 <= 2000

NoTransactions == transactions = <<>> /\ tax_transactions = <<>>

\* the accounts with a positive annual growth rate
GrowingAccounts == {i \in AccountIds : assets[i].annual_growth_rate > 0}

\* the recorded balance of account i in the k-th month
RecordedBalance(i, k) == account_balance_histories[i][k].value

\* C14 as stated: with no transactions and a positive annual growth rate, every account's
\* recorded balance of a month is at least its recorded balance of the previous month,
\* for any initial balance and any active window.
C14_BalancesNeverDecrease ==
    NoTransactions =>
        \A i \in GrowingAccounts :
            \A k \in 2..Len(account_balance_histories[i]) :
                RecordedBalance(i, k) >= RecordedBalance(i, k - 1)

\* C14 amended: with no transactions and a positive annual growth rate, the recorded
\* balance of an account with a non-negative initial balance is, in every month in which
\* the account is active, at least its recorded balance of the previous month.
C14_ActiveAssetsNeverDecrease ==
    NoTransactions =>
        \A i \in GrowingAccounts :
            \A k \in 2..Len(account_balance_histories[i]) :
                (assets[i].initial_balance >= 0 /\ ActiveAt(i, SnapshotDate(k)))
                    => RecordedBalance(i, k) >= RecordedBalance(i, k - 1)

\* an asset has grown over a whole pass without transactions
C14_Witness ==
    /\ NoTransactions
    /\ pc = "collect"
    /\ \E i \in GrowingAccounts :
           /\ assets[i].initial_balance > 0
           /\ Len(account_balance_histories[i]) = Horizon
           /\ \A k \in 2..Horizon :
                  ActiveAt(i, SnapshotDate(k)) /\ RecordedBalance(i, k) > RecordedBalance(i, k - 1)

\* the amounts of a list of detail lines
AmountsOf(lines) == [e \in 1..Len(lines) |-> lines[e].amount]

\* C15: every monthly cash-flow record has net = income + expenses + taxes; the month's
\* growth is reported in growth and growth_details and is no part of net, income or
\* expenses, which are the sums of the transaction lines of the month.
C15_NetExcludesGrowth ==
    \A k \in Snapshots :
        LET cf == cash_flow_history[k]
        IN /\ cf.net = cf.income + cf.expenses + cf.taxes
           /\ cf.growth = SumSeq(AmountsOf(cf.growth_details))
           /\ cf.income = SumSeq(AmountsOf(cf.income_details))
           /\ cf.expenses = SumSeq(AmountsOf(cf.expense_details))
           /\ cf.taxes = SumSeq(AmountsOf(cf.tax_details))
           /\ \A e \in 1..Len(CashFlowLines(k)) :
                  /\ "transaction_id" \in DOMAIN CashFlowLines(k)[e]
                  /\ \E t \in 1..Len(AllTransactions) :
                         AllTransactions[t].name = CashFlowLines(k)[e].name

\* a month with growth, income and expenses has been recorded
C15_Witness ==
    \E k \in Snapshots :
        /\ cash_flow_history[k].growth # 0
        /\ cash_flow_history[k].income > 0
        /\ cash_flow_history[k].expenses < 0
        /\ cash_flow_history[k].net = cash_flow_history[k].income + cash_flow_history[k].expenses

\* the overrides hold one mortgage-rate shock {pct, start, end}
OneMortgageRateShock ==
    /\ Len(overrides.mortgage_rate_shocks) = 1
    /\ overrides.mortgage_rate_shocks[1].pct # None

\* month d lies inside the window of a shock entry (a missing end of the window is open)
InsideShockWindow(entry, d) ==
    /\ entry.start_year # NoValue
           => StartsBeforeOrNow(entry.start_year, entry.start_month, d.year, d.month)
    /\ entry.end_year # NoValue
           => EndsAfterOrNow(entry.end_year, entry.end_month, d.year, d.month)

\* the annual rate C16 expects for the payment of itx in the current month: the stored
\* rate of the transaction, plus pct inside the shock window
ShockedRate(itx) ==
    LET shock == overrides.mortgage_rate_shocks[1]
        base == repo_docs.transactions[itx.id].annual_interest_rate
    IN IF InsideShockWindow(shock, current_date) THEN base + shock.pct[1] ELSE base

\* C16: with a mortgage-rate shock {pct, start, end}, every mortgage-interest payment in a
\* month inside the shock window is computed with the rate base + pct, and every payment
\* in a month outside the window with the unshocked base rate of the transaction.
C16_ShockedInterestRate ==
    [][(/\ pc = "interest"
        /\ mi <= Len(MortTxs)
        /\ OneMortgageRateShock
        /\ InterestCharged(MortTxs[mi])) =>
          LET itx == MortTxs[mi]
              charge == Abs(balance[itx.mortgage_account])
                            * ((ShockedRate(itx) * itx.frequency) \div 12)
              lines == details'.expense_details
          IN /\ lines[Len(lines)].name = itx.name
             /\ lines[Len(lines)].amount = -charge
             /\ balance'[itx.pay_from_account] = balance[itx.pay_from_account] - charge]_vars

\* interest has just been charged at the shocked rate inside the window, after a month
\* before the window in which it was charged at the base rate
C16_Witness ==
    /\ pc = "interest"
    /\ mi > 1
    /\ OneMortgageRateShock
    /\ overrides.mortgage_rate_shocks[1].pct # Some(0)
    /\ InterestCharged(MortTxs[mi - 1])
    /\ InsideShockWindow(overrides.mortgage_rate_shocks[1], current_date)
    /\ details.expense_details # <<>>
    /\ details.expense_details[Len(details.expense_details)].amount =
           -(Abs(balance[MortTxs[mi - 1].mortgage_account])
                 * ((ShockedRate(MortTxs[mi - 1]) * MortTxs[mi - 1].frequency) \div 12))
    /\ cash_flow_history # <<>>
    /\ ~InsideShockWindow(overrides.mortgage_rate_shocks[1], cash_flow_history[1].date)
    /\ \E e \in InterestLines(1) :
           cash_flow_history[1].expense_details[e].amount =
               -(Abs(account_balance_histories[MortTxs[mi - 1].mortgage_account][1].value)
                     * ((repo_docs.transactions[MortTxs[mi - 1].id].annual_interest_rate
                             * MortTxs[mi - 1].frequency) \div 12))

\* the tax charges of the pass that are due in the december of snapshot date d on an
\* active tax target
ChargesDue(d) ==
    {c \in 1..Len(tax_transactions) :
        /\ d.month = 12
        /\ tax_transactions[c].start_year = d.year
        /\ tax_transactions[c].asset_id \in AccountIds
        /\ ActiveAt(tax_transactions[c].asset_id, d)}

\* C17: the annual tax charge injected in December is reported in that month's cash-flow
\* record under tax_details and in the taxes total, as a negative amount, and not under
\* expense_details or in the expenses total.
C17_TaxChargeUnderTaxes ==
    \A k \in Snapshots : \A c \in ChargesDue(SnapshotDate(k)) :
        LET cf == cash_flow_history[k]
        IN /\ \E e \in 1..Len(cf.tax_details) :
                  /\ cf.tax_details[e].name = tax_transactions[c].name
                  /\ cf.tax_details[e].amount < 0
           /\ cf.taxes < 0
           /\ \A e \in 1..Len(cf.expense_details) :
                  cf.expense_details[e].name # tax_transactions[c].name

\* the entries of the log that book a tax charge in the current month
ChargesBooked ==
    {e \in 1..Len(applied) :
        /\ applied[e].date = current_date
        /\ \E c \in ChargesDue(current_date) : applied[e].name = tax_transactions[c].name}

\* C18: in a December with an annual tax charge, the charge is applied to the tax target
\* after the month's standard transactions and mortgage interest and before the snapshot:
\* while the month's interest is computed and applied, no charge has been booked yet.
C18_ChargeAfterInterest ==
    pc = "interest" => ChargesBooked = {}

\* how the four optional tax settings of the scenario are stored
SettingKinds ==
    {scenario.municipal_tax_factor.kind, scenario.cantonal_tax_factor.kind,
     scenario.church_tax_factor.kind, scenario.personal_tax_per_person.kind}

\* C19: a scenario whose optional tax settings are absent or stored as null is simulated
\* without error: the run does not raise and returns a result with tax rows.
C19_MissingTaxSettingsDefaulted ==
    (SettingKinds \cap {"absent", "null"} # {}) =>
        /\ pc # "error"
        /\ pc = "done" => tax_rows # <<>>

\* the window of a shock entry overlaps the scenario window
OverlapsScenario(entry) ==
    /\ entry.start_year # NoValue
           => StartsBeforeOrNow(entry.start_year, entry.start_month,
                                scenario.end_year, scenario.end_month)
    /\ entry.end_year # NoValue
           => EndsAfterOrNow(entry.end_year, entry.end_month,
                             scenario.start_year, scenario.start_month)

\* the income-tax rate C20 expects for the run: pct of the first income-tax shock whose
\* window overlaps the scenario window on top of the base rate 0, else the base rate
ExpectedIncomeTaxRate ==
    LET shocks == overrides.income_tax_shocks
        hits == {k \in 1..Len(shocks) : shocks[k].pct # None /\ OverlapsScenario(shocks[k])}
    IN IF hits = {} THEN 0
       ELSE shocks[CHOOSE k \in hits : \A j \in hits : k <= j].pct[1]

\* C20: with overrides that contain income_tax_shocks the run completes, and it uses one
\* effective income-tax rate throughout: the base rate plus the pct of the first shock
\* whose window overlaps the scenario window, or the base rate when none overlaps.
C20_IncomeTaxShocksApplied ==
    overrides.income_tax_shocks # <<>> =>
        /\ pc # "error"
        /\ pc # "load" => \A k \in 1..Len(MortTxs) : MortTxs[k].tax_rate = ExpectedIncomeTaxRate

\* the stored transactions that carry a link id
Linked == {k \in 1..Len(stored.transactions) : stored.transactions[k].link_id # NoValue}

\* the other stored transactions with the link id of transaction k
Partners(k) ==
    {j \in Linked \ {k} : stored.transactions[j].link_id = stored.transactions[k].link_id}

\* documents a and b have equal magnitude, opposite signs and the same window and frequency
Mirrored(a, b) ==
    /\ Abs(a.amount) = Abs(b.amount)
    /\ (a.amount > 0 /\ b.amount < 0) \/ (a.amount < 0 /\ b.amount > 0)
    /\ a.start_year = b.start_year /\ a.start_month = b.start_month
    /\ a.end_year = b.end_year /\ a.end_month = b.end_month
    /\ a.frequency = b.frequency

\* C21: after any sequence of add_linked_transactions, update_transaction,
\* delete_transaction and delete_asset, every stored transaction that carries a link id
\* has exactly one stored partner with the same link id, and the two have equal magnitude,
\* opposite signs and the same window and frequency.
C21_LinkedPairsMirrored ==
    \A k \in Linked :
        /\ Cardinality(Partners(k)) = 1
        /\ \A j \in Partners(k) : Mirrored(stored.transactions[k], stored.transactions[j])

\* contains(window, key) as C22 states it
Contains(entry, key) ==
    /\ entry.start = NoValue \/ key >= entry.start
    /\ entry.end = NoValue \/ key <= entry.end

\* the annual rate C22 expects for account i in the current month: the rate of the first
\* growth_schedule entry whose window contains the month, else the base rate
ClaimedGrowthRate(i) ==
    LET schedule == Acct(i).growth_schedule
        key == MonthKey(current_date.year, current_date.month)
        hits == {k \in 1..Len(schedule) : Contains(schedule[k], key)}
    IN IF hits = {} THEN Acct(i).base_annual_growth_rate
       ELSE schedule[CHOOSE k \in hits : \A j \in hits : k <= j].rate

\* C22: a growth_schedule entry determines the compounding rate of a month only if
\* (start is None or key >= start) and (end is None or key <= end), the first such entry
\* winning; in every month contained in no entry's window, the months after a shock window
\* has ended among them, the account compounds at its base annual rate.
C22_GrowthScheduleWindows ==
    pc = "standard" =>
        \A i \in AccountIds :
            ActiveAt(i, current_date) =>
                balance[i] = BalanceBeforeGrowth(i)
                                 + BalanceBeforeGrowth(i) * MonthlyRate(ClaimedGrowthRate(i))


\* the effective amount of document t in month d before the inflation schedule: the base
\* amount, indexed by the periods elapsed for a regular transaction
IndexedAmount(t, d) ==
    IF transactions[t].type = "regular"
    THEN transactions[t].amount
             * Pow(1 + MonthlyRate(transactions[t].annual_growth_rate),
                   MonthsBetween(StartOf(t).year, StartOf(t).month, d.year, d.month)
                       \div FrequencyOf(t))
    ELSE transactions[t].amount

\* the entries of the inflation schedule of document t whose window contains month d
InflationHits(t, d) ==
    {k \in 1..Len(transactions[t].inflation_schedule) :
        Contains(transactions[t].inflation_schedule[k], MonthKey(d.year, d.month))}

\* the one-time and regular transactions that carry an inflation schedule
Inflated ==
    {t \in 1..Len(transactions) :
        /\ transactions[t].type \in {"one_time", "regular"}
        /\ transactions[t].inflation_schedule # <<>>}

\* C23: every occurrence of a one-time or regular transaction in a month inside a window
\* of its inflation schedule is applied as (indexed amount) * (1 + pct) of the first
\* matching entry, the factor never accumulating from one occurrence to the next; every
\* occurrence outside all windows, after a window has ended too, is applied at the plain
\* indexed amount.
C23_InflationFactorPerOccurrence ==
    \A t \in Inflated : \A e \in EntriesOf(t) :
        LET d == applied[e].date
            hits == InflationHits(t, d)
            first == CHOOSE k \in hits : \A j \in hits : k <= j
        IN applied[e].amount =
               IF hits = {} THEN IndexedAmount(t, d)
               ELSE IndexedAmount(t, d) * (1 + transactions[t].inflation_schedule[first].pct)

\* an indexed regular transaction was applied twice inside a window that a second entry
\* also covers, and once more after every window had ended
C23_Witness ==
    \E t \in Inflated :
        /\ transactions[t].annual_growth_rate # 0
        /\ \E e1 \in EntriesOf(t), e2 \in EntriesOf(t), e3 \in EntriesOf(t) :
               /\ applied[e1].date # applied[e2].date
               /\ Cardinality(InflationHits(t, applied[e1].date)) = 2
               /\ Cardinality(InflationHits(t, applied[e2].date)) = 2
               /\ InflationHits(t, applied[e3].date) = {}
               /\ \E k \in 1..Len(transactions[t].inflation_schedule) :
                      /\ transactions[t].inflation_schedule[k].end # NoValue
                      /\ MonthKey(applied[e3].date.year, applied[e3].date.month)
                             > transactions[t].inflation_schedule[k].end
               /\ applied[e3].amount = IndexedAmount(t, applied[e3].date)
               /\ applied[e2].amount = 2 * IndexedAmount(t, applied[e2].date)


\* the ids of the stored mortgage-interest transactions that are flagged taxable
TaxableInterestIds ==
    {transactions[t].id : t \in {u \in 1..Len(transactions) :
        transactions[u].type = "mortgage_interest" /\ transactions[u].taxable}}

\* the interest charged in a year of the pass by the transactions flagged taxable
TaxableInterestCharged(year) ==
    SumSeq([k \in 1..Len(cash_flow_history) |->
               IF cash_flow_history[k].date.year # year THEN 0
               ELSE SumSeq([e \in 1..Len(cash_flow_history[k].expense_details) |->
                               LET line == cash_flow_history[k].expense_details[e]
                               IN IF /\ line.tx_type = "mortgage_interest"
                                     /\ line.transaction_id \in TaxableInterestIds
                                  THEN Abs(line.amount) ELSE 0])])

\* the taxable income less the taxable expense of the one-time and regular transactions
NetOfOccurrences(year) ==
    LET taxable_map == TaxableMap(<<>>, transactions)
    IN IF year \in DOMAIN taxable_map
       THEN taxable_map[year].income - taxable_map[year].expense
       ELSE 0

\* C24: for each year, the taxable expense _collect_yearly_tax attributes to mortgage
\* interest is the sum of the absolute interest amounts charged in that year, in the same
\* pass, by the mortgage-interest transactions flagged taxable; interest charged by a
\* transaction that is not flagged taxable adds nothing to any year's taxable expense.
C24_TaxableInterestOfThePass ==
    [][(pc = "collect" /\ pc' # "error") =>
           \A k \in 1..Len(tax_rows') :
               tax_rows'[k].net = NetOfOccurrences(tax_rows'[k].year)
                                      - TaxableInterestCharged(tax_rows'[k].year)]_vars


\* the entries of the log that book tax charge c of the pass in its december on an active
\* account, on the configured tax account when that one is active
ChargeEntries(c) ==
    LET d == Date(tax_transactions[c].start_year, 12)
    IN {e \in 1..Len(applied) :
           /\ applied[e].date = d
           /\ applied[e].name = tax_transactions[c].name
           /\ applied[e].amount = tax_transactions[c].amount
           /\ ActiveAt(applied[e].account, d)
           /\ (TaxAccount # NoValue /\ ActiveAt(TaxAccount, d)) => applied[e].account = TaxAccount}

\* C25: for every year with a non-zero tax total from the previous round whose December
\* lies in the scenario window, the next pass deducts exactly |totalAll| in that December
\* from the tax target: the configured tax account when it exists and is active in that
\* month, otherwise an active fallback account; the charge is never dropped.
C25_ChargeNeverDropped ==
    pc = "collect" =>
        \A c \in 1..Len(tax_transactions) :
            LET d == Date(tax_transactions[c].start_year, 12)
            IN (d \in ScenarioMonths /\ \E i \in AccountIds : ActiveAt(i, d))
                   => Cardinality(ChargeEntries(c)) = 1


\* C26: the tax functions are monotone non-decreasing: of two years, the one with the
\* smaller net taxable income has the smaller or equal income tax (_calc_progressive, default
\* income brackets) and federal tax (_calc_federal, default federal table), and the one with
\* the smaller wealth the smaller or equal wealth tax (default wealth brackets).
C26_TaxFunctionsMonotone ==
    \A j \in 1..Len(tax_rows) : \A k \in 1..Len(tax_rows) :
        /\ tax_rows[j].net <= tax_rows[k].net
               => /\ tax_rows[j].incomeTax <= tax_rows[k].incomeTax
                  /\ tax_rows[j].federalTax <= tax_rows[k].federalTax
        /\ tax_rows[j].wealth <= tax_rows[k].wealth
               => tax_rows[j].wealthTax <= tax_rows[k].wealthTax


\* C27: a call of the simulation on Account objects an earlier call has used returns the
\* histories the earlier call returned for the same accounts, transactions and window: the
\* balances, growth rates and month context left on the objects do not reach the result.
C27_PassesStartFresh == (pc = "collect" /\ earlier # <<>>) => Histories = earlier

\* a second call has ended on accounts the first call left with a balance other than the
\* initial one, a growth rate other than the base rate and a month context
C27_Witness ==
    /\ pc = "collect"
    /\ iteration = MaxCalls
    /\ earlier # <<>>
    /\ Histories = earlier
    /\ Len(total_wealth_history) > 1
    /\ \E i \in AccountIds :
           /\ account_attrs[i].annual_growth_rate # Acct(i).base_annual_growth_rate
           /\ account_attrs[i].current_year # NoValue
           /\ balance[i] # Acct(i).initial_balance
           /\ account_initialized[i]


\* the december charges that are due for rows: year and amount -|totalAll|, none for a zero
ChargesOf(rows) ==
    {[year |-> rows[k].year, amount |-> -Abs(rows[k].totalAll)] :
        k \in {j \in 1..Len(rows) : rows[j].totalAll # 0}}

\* the charges the running pass was given: one-time transactions in a december
ChargesGiven ==
    {[year |-> tax_transactions[c].start_year, amount |-> tax_transactions[c].amount] :
        c \in 1..Len(tax_transactions)}

\* the lines of the running pass that book a charge named after a year of rows
ChargeLines(rows) ==
    {e \in 1..Len(applied) :
        \E k \in 1..Len(rows) : applied[e].name = "Steuern " \o ToString(rows[k].year)}

\* C28: the returned tax rows are computed from the returned pass, and every pass is run with
\* the december charges -|totalAll| of the rows of the round before (none in the first
\* round), whether the iteration ends by convergence or at the cap.
C28_ReturnedRowsOfReturnedPass ==
    /\ [](pc \in {"growth", "standard", "interest", "collect"} =>
              /\ iteration = 1 => (tax_rows = <<>> /\ tax_transactions = <<>>)
              /\ ChargesGiven = ChargesOf(tax_rows)
              /\ Len(tax_transactions) = Cardinality(ChargesOf(tax_rows))
              /\ \A c \in 1..Len(tax_transactions) :
                     /\ tax_transactions[c].type = "one_time"
                     /\ tax_transactions[c].start_month = 12
              /\ \A e \in ChargeLines(tax_rows) :
                     /\ applied[e].date.month = 12
                     /\ [year |-> applied[e].date.year, amount |-> applied[e].amount]
                            \in ChargesOf(tax_rows))
    /\ [][pc' = "done" =>
              /\ Histories' = Histories
              /\ tax_rows' = CollectYearlyTax(transactions, cash_flow_history,
                                              total_wealth_history, scenario)]_vars

\* the iteration has ended at the cap without converging, and the returned pass has booked
\* a charge of the round before
C28_Witness ==
    /\ pc = "done"
    /\ ~same_vals
    /\ iteration = max_iterations
    /\ tax_rows = CollectYearlyTax(transactions, cash_flow_history, total_wealth_history,
                                   scenario)
    /\ \E e \in 1..Len(applied) : \E k \in 1..Len(tax_rows) :
           /\ applied[e].name = "Steuern " \o ToString(tax_rows[k].year)
           /\ applied[e].amount < 0
           /\ applied[e].amount # -Abs(tax_rows[k].totalAll)


\* the stored one-time and regular transactions that are flagged taxable
TaxableStandard ==
    {t \in 1..Len(transactions) :
        transactions[t].taxable /\ transactions[t].type # "mortgage_interest"}

\* the taxable amount _collect_yearly_tax credits to year for transaction t alone
CountedIn(t, year) ==
    LET store == TaxableMap(<<>>, <<transactions[t]>>)
    IN IF year \in DOMAIN store THEN store[year].income + store[year].expense ELSE 0

\* the years _collect_yearly_tax credits for transaction t, and the years of the scenario
YearsOf(t) ==
    DOMAIN TaxableMap(<<>>, <<transactions[t]>>) \cup {d.year : d \in ScenarioMonths}

\* C29: for every taxable one-time or regular transaction and every year, _collect_yearly_tax
\* counts one occurrence for each month of the year in which the simulation applies the
\* transaction, and no other: none outside the scenario window and none in a month in
\* which the transaction's account is inactive or missing.
C29_CountedOccurrencesAreApplied ==
    pc = "collect" =>
        \A t \in TaxableStandard : \A year \in YearsOf(t) :
            CountedIn(t, year) =
                TaxableAmount(transactions[t])
                    * Cardinality({e \in EntriesOf(t) : applied[e].date.year = year})


\* C30: every returned tax row has federalTax >= 0 and totalAll >= 0, whatever the net
\* taxable income and the wealth of its year: a year without net income or wealth owes no
\* income, wealth or federal tax, so that every december charge is a tax that is owed.
C30_NoNegativeTax ==
    pc = "done" =>
        \A k \in 1..Len(tax_rows) :
            /\ tax_rows[k].federalTax >= 0
            /\ tax_rows[k].totalAll >= 0
            /\ tax_rows[k].net <= 0 => (tax_rows[k].incomeTax = 0 /\ tax_rows[k].federalTax = 0)

====
